---- MODULE Spec2Model ----
(***************************************************************************)
(* A model of the numeric core of pytracker: the Engbert microsaccade      *)
(* detector (events/detection/engbert.py), the run-length grouping it      *)
(* uses, the position-to-velocity differentiation and the pixel-to-degree  *)
(* conversion (gaze/transforms.py), the event properties                   *)
(* (events/event_properties.py) and their evaluation on the gaze samples   *)
(* of each event (events/event_processing.py).                             *)
(*                                                                         *)
(* Numbers.  The Python code computes on IEEE doubles.  The model computes *)
(* on integers and keeps every comparison exact:                           *)
(*   - a missing value (NaN) is the distinguished value NaN; every         *)
(*     comparison with it is FALSE and every sum with it is NaN;           *)
(*   - a threshold t is carried as Sq8(t) = 8*t*t, because the engbert2015 *)
(*     threshold is the square root of a median of squared deviations from *)
(*     a median: 8*t*t is an integer whenever the velocities are, and      *)
(*     "a < b" on non-negative a, b is "Sq8(a) < Sq8(b)";                  *)
(*   - a velocity of pos2vel is carried in sixths (6*v), because the code  *)
(*     divides by 2 and by 6 only.                                         *)
(* Rounding of doubles is therefore not modelled.                          *)
(* Sample indices are 0-based, as in the code; TLA+ sequences are 1-based, *)
(* so sample i of an array a is a[i + 1].                                  *)
(***************************************************************************)
EXTENDS Integers, Sequences, FiniteSets, TLC

VARIABLES
    \* microsaccades(): its arguments ...
    positions, velocities, timesteps, minimum_duration, threshold,
    threshold_factor, minimum_threshold, include_nan,
    \* ... its locals and its result
    candidate_indices, candidates, events,
    \* the run-length grouping called on its own: its argument and its result
    index_arr, runs,
    \* pos2vel(): its arguments, its result and, per output index, the number
    \* of assignments that wrote it
    p2v_arr, p2v_sampling_rate, p2v_method, p2v_kwargs, p2v_v, p2v_written,
    \* pix2deg(): its arguments and its result
    p2d_arr, p2d_screen_px, p2d_screen_cm, p2d_distance_cm, p2d_origin, p2d_result,
    \* an event property applied to the samples of one event: the property's
    \* name, its column-name argument, the samples and the value
    prop_name, prop_columns, prop_window, prop_value,
    \* EventGazeProcessor.process(): the event frame, the gaze frame, the
    \* identifiers, the processor's property names, the column names handed
    \* to the reductions, the groups aggregated and the frame returned
    proc_events, proc_gaze, proc_identifiers, proc_properties, proc_kwargs,
    proc_groups, proc_result,
    \* a Dataset: its gaze recordings and its event collections; the call made
    \* last, the event collections before it, the event frames its loop built,
    \* the recordings the detection method was invoked on, the number of calls
    ds_gaze, ds_events, ds_call, ds_before, ds_detected, ds_invoked, ds_calls,
    \* a call that takes an option out of an enumerated set: the function
    \* called, the option, the array it is given, its result and, when it
    \* raises, the message of the error
    opt_callee, opt_option, opt_arr, opt_result, opt_message,
    \* a Dataset under the transform stages: what its recordings hold (pixels
    \* or positions), the recordings, the call made last, the recordings
    \* before it and the number of calls
    tr_stage, tr_gaze, tr_call, tr_before, tr_calls,
    \* compute_threshold on an array and on the array scaled: the array, the
    \* scale factor and the two thresholds
    thr_arr, thr_k, thr_base, thr_scaled,
    \* download_dataset(): the definition and the flags it is called with,
    \* the verified files in the downloads directory, the download_file calls
    \* made and the archives extracted
    dl_definition, dl_call, dl_present, dl_attempts, dl_extracted,
    \* the call in progress: "call", then "returned" or "raised" with the error
    pc, raised

msArgs == <<positions, velocities, timesteps, minimum_duration, threshold,
            threshold_factor, minimum_threshold, include_nan>>
msVars == <<positions, velocities, timesteps, minimum_duration, threshold,
            threshold_factor, minimum_threshold, include_nan,
            candidate_indices, candidates, events>>
grpVars == <<index_arr, runs>>
velArgs == <<p2v_arr, p2v_sampling_rate, p2v_method, p2v_kwargs>>
velVars == <<p2v_arr, p2v_sampling_rate, p2v_method, p2v_kwargs, p2v_v, p2v_written>>

degArgs == <<p2d_arr, p2d_screen_px, p2d_screen_cm, p2d_distance_cm, p2d_origin>>
degVars == <<p2d_arr, p2d_screen_px, p2d_screen_cm, p2d_distance_cm, p2d_origin,
             p2d_result>>
\* the variables of the functions modelled further down
propArgs == <<prop_name, prop_columns, prop_window>>
propVars == <<prop_name, prop_columns, prop_window, prop_value>>
procArgs == <<proc_events, proc_gaze, proc_identifiers, proc_properties>>
procVars == <<proc_events, proc_gaze, proc_identifiers, proc_properties,
              proc_kwargs, proc_groups, proc_result>>
dsVars == <<ds_gaze, ds_events, ds_call, ds_before, ds_detected, ds_invoked, ds_calls>>
optVars == <<opt_callee, opt_option, opt_arr, opt_result, opt_message>>
trVars == <<tr_stage, tr_gaze, tr_call, tr_before, tr_calls>>
thrVars == <<thr_arr, thr_k, thr_base, thr_scaled>>
dlVars == <<dl_definition, dl_call, dl_present, dl_attempts, dl_extracted>>
restVars == <<dsVars, optVars, trVars, thrVars, dlVars>>
laterVars == <<degVars, propVars, procVars, restVars>>

vars == <<msVars, grpVars, velVars, laterVars, pc, raised>>

----------------------------------------------------------------------------
(* Bounds of the model. *)

\* longest velocity sequence drawn for microsaccades (besides the scenario)
MaxLen == 4

\* largest sample index drawn for the run-length grouping called on its own
MaxIndex == 11

\* longest position sequence drawn for pos2vel
MaxSamples == 7

----------------------------------------------------------------------------
(* Numbers and sequences. *)

\* the missing value: np.nan
NaN == -1000000

isnan(x) == x = NaN

Range(s) == {s[i] : i \in 1..Len(s)}

SeqsUpTo(S, n) == UNION {[1..k -> S] : k \in 0..n}

\* the k-th smallest (k in 1..Len(s)) element of a non-empty sequence of integers
Kth(s, k) ==
    CHOOSE x \in Range(s) :
        /\ Cardinality({i \in 1..Len(s) : s[i] < x}) < k
        /\ Cardinality({i \in 1..Len(s) : s[i] <= x}) >= k

\* the elements of a finite set of integers in ascending order
RECURSIVE Ascending(_)
Ascending(S) ==
    IF S = {} THEN <<>>
    ELSE LET m == CHOOSE x \in S : \A y \in S : x <= y
         IN  <<m>> \o Ascending(S \ {m})

\* 8 * t * t, the form in which a threshold t is carried
Sq8(t) == IF isnan(t) THEN NaN ELSE 8 * t * t

----------------------------------------------------------------------------
(* utils/checks.py *)

\* an array of shape (N, 2): a sequence of N rows of 2 numbers
IsShapeN2(arr) == \A i \in 1..Len(arr) : Len(arr[i]) = 2

\* TRUE when the check passes (no ValueError)
check_shapes_positions_velocities(pos, vel) ==
    /\ IsShapeN2(pos)
    /\ IsShapeN2(vel)
    /\ Len(pos) = Len(vel)
    /\ \A i \in 1..Len(pos) : Len(pos[i]) = Len(vel[i])

\* TRUE when the check passes (no ValueError)
check_is_length_matching(value_1, value_2) == Len(value_1) = Len(value_2)

----------------------------------------------------------------------------
(* events/detection/engbert.py: compute_threshold *)

Column(arr, c) == [i \in 1..Len(arr) |-> arr[i][c]]

NotNaN(x) == ~isnan(x)

\* twice np.nanmedian(col): the median of the values that are not NaN, the mean
\* of the two middle ones when their number is even; NaN when there is none
nanmedian2(col) ==
    LET vals == SelectSeq(col, NotNaN)
        n    == Len(vals)
    IN  IF n = 0 THEN NaN
        ELSE IF n % 2 = 1 THEN 2 * Kth(vals, (n + 1) \div 2)
        ELSE Kth(vals, n \div 2) + Kth(vals, n \div 2 + 1)

\* 4 * np.power(col - np.nanmedian(col), 2), elementwise
SquaredDeviation4(col) ==
    LET m2 == nanmedian2(col)
    IN  [i \in 1..Len(col) |->
            IF isnan(col[i]) \/ isnan(m2) THEN NaN
            ELSE (2 * col[i] - m2) * (2 * col[i] - m2)]

\* variant of engbert2015: np.sqrt left out; the median m of the squared
\* deviations is carried as 8 * m * m, rounded down
engbert2015_without_sqrt(col) ==
    LET m8 == nanmedian2(SquaredDeviation4(col))
    IN  IF isnan(m8) THEN NaN ELSE (m8 * m8) \div 8

\* Sq8 of np.sqrt(np.nanmedian(np.power(col - np.nanmedian(col), 2)))
engbert2015(col) == nanmedian2(SquaredDeviation4(col))

valid_methods == {"std", "mad", "engbert2003", "engbert2015"}

\* Sq8 of each component of compute_threshold(arr, method), for the method the
\* model draws; an unknown method raises (compute_threshold_raises)
compute_threshold(arr, method) ==
    <<engbert2015(Column(arr, 1)), engbert2015(Column(arr, 2))>>

compute_threshold_raises(method) == method \notin valid_methods

----------------------------------------------------------------------------
(* gaze/transforms.py: the run-length grouping, imported by engbert.py under *)
(* the name consecutive                                                     *)

\* variant of consecutive: the "+ 1" of the split offsets left out
consecutive_split_early(arr) ==
    LET n      == Len(arr)
        splits == Ascending({k - 1 : k \in {m \in 1..(n - 1) : arr[m + 1] - arr[m] # 1}})
        bounds == <<0>> \o splits \o <<n>>
    IN  [j \in 1..(Len(splits) + 1) |-> SubSeq(arr, bounds[j] + 1, bounds[j + 1])]

\* np.split(arr, np.where(np.diff(arr) != 1)[0] + 1)
consecutive(arr) ==
    LET n      == Len(arr)
        \* np.where(np.diff(arr) != 1)[0] + 1: the offsets at which to split
        splits == Ascending({k \in 1..(n - 1) : arr[k + 1] - arr[k] # 1})
        \* np.split: the pieces arr[0:s1], arr[s1:s2], ..., arr[sm:n]
        bounds == <<0>> \o splits \o <<n>>
    IN  [j \in 1..(Len(splits) + 1) |-> SubSeq(arr, bounds[j] + 1, bounds[j + 1])]

----------------------------------------------------------------------------
(* events/detection/engbert.py: microsaccades *)

\* An argument that Python overloads by type is a record with one field named
\* after the type: [str |-> "engbert2015"], [arr |-> <<1, 1>>], [none |-> TRUE].
IsStr(x)  == "str" \in DOMAIN x
IsNone(x) == "none" \in DOMAIN x

\* lines 32-34: timesteps = np.arange(len(velocities)) when None
resolve_timesteps(ts, vel) ==
    IF IsNone(ts) THEN [i \in 1..Len(vel) |-> i - 1] ELSE ts.arr

\* lines 37-42: the threshold the detector works with, each component as Sq8
resolve_threshold(th, vel) ==
    IF IsStr(th) THEN compute_threshold(vel, th.str)
    ELSE [c \in 1..Len(th.arr) |-> Sq8(th.arr[c])]

\* variant of below_minimum: .all() in place of .any()
below_minimum_all(th, min_th) ==
    \A c \in 1..Len(th) : ~isnan(th[c]) /\ th[c] < min_th

\* variant of below_minimum: <= in place of <
below_minimum_inclusive(th, min_th) ==
    \E c \in 1..Len(th) : ~isnan(th[c]) /\ th[c] <= min_th

\* line 44: (threshold < minimum_threshold).any(), on Sq8 forms; a comparison
\* with NaN is false
below_minimum(th, min_th) ==
    \E c \in 1..Len(th) : ~isnan(th[c]) /\ th[c] < min_th

\* the ValueError microsaccades raises, "" when it raises none (lines 30-48)
microsaccades_error(pos, vel, ts, th, min_th) ==
    IF ~check_shapes_positions_velocities(pos, vel) THEN "shape"
    ELSE IF ~check_is_length_matching(vel, resolve_timesteps(ts, vel)) THEN "length"
    ELSE IF IsStr(th) /\ compute_threshold_raises(th.str) THEN "method"
    ELSE IF ~IsStr(th) /\ Len(th.arr) # 2 THEN "dimension"
    ELSE IF below_minimum(resolve_threshold(th, vel), min_th) THEN "minimum_threshold"
    ELSE ""

\* variant of radius_of: the factor left out
radius_without_factor(th, factor) == th

\* line 51: radius = threshold * threshold_factor, each component as Sq8
radius_of(th, factor) ==
    [c \in 1..Len(th) |-> IF isnan(th[c]) THEN NaN ELSE th[c] * factor * factor]

\* variant of outside_ellipse: np.less in place of np.greater
inside_ellipse(v, R) ==
    LET is_nan == \E c \in 1..2 : isnan(v[c]) \/ isnan(R[c]) \/ (R[c] = 0 /\ v[c] = 0)
        is_inf == \E c \in 1..2 : R[c] = 0 /\ v[c] # 0
    IN  /\ ~is_nan
        /\ ~is_inf
        /\ 8 * v[1] * v[1] * R[2] + 8 * v[2] * v[2] * R[1] < R[1] * R[2]

\* variant of outside_ellipse: missing components read as zero (np.nan_to_num)
outside_ellipse_nan_as_zero(v, R) ==
    LET w      == [c \in 1..2 |-> IF isnan(v[c]) THEN 0 ELSE v[c]]
        is_nan == \E c \in 1..2 : isnan(R[c]) \/ (R[c] = 0 /\ w[c] = 0)
        is_inf == \E c \in 1..2 : R[c] = 0 /\ w[c] # 0
    IN  /\ ~is_nan
        /\ \/ is_inf
           \/ 8 * w[1] * w[1] * R[2] + 8 * w[2] * w[2] * R[1] > R[1] * R[2]

\* line 54 for one sample v = (vx, vy): (vx/rx)^2 + (vy/ry)^2 > 1 on doubles.
\* x/0 is inf for x # 0 and NaN for x = 0; a sum with NaN is NaN and NaN > 1 is
\* false; inf > 1 is true.  R is the radius as Sq8, so (v/r)^2 = 8*v*v / R.
outside_ellipse(v, R) ==
    LET is_nan == \E c \in 1..2 : isnan(v[c]) \/ isnan(R[c]) \/ (R[c] = 0 /\ v[c] = 0)
        is_inf == \E c \in 1..2 : R[c] = 0 /\ v[c] # 0
    IN  /\ ~is_nan
        /\ \/ is_inf
           \/ 8 * v[1] * v[1] * R[2] + 8 * v[2] * v[2] * R[1] > R[1] * R[2]

\* np.isnan(velocities).any(axis=1), for one sample
any_nan(v) == \E c \in 1..Len(v) : isnan(v[c])

\* lines 54-58
candidate_mask_of(vel, R, with_nan) ==
    [i \in 1..Len(vel) |-> outside_ellipse(vel[i], R) \/ (with_nan /\ any_nan(vel[i]))]

\* line 61: np.where(mask)[0], the 0-based indices of the true entries, ascending
where(mask) == Ascending({i - 1 : i \in {j \in 1..Len(mask) : mask[j]}})

\* utils/filters.py (not part of the sources at hand), after the specification:
\* each run loses its leading and its trailing indices whose velocity is missing
candidate_remove_nans(candidate, values) ==
    LET good == {k \in 1..Len(candidate) : ~any_nan(values[candidate[k] + 1])}
    IN  IF good = {} THEN <<>>
        ELSE SubSeq(candidate,
                    CHOOSE k \in good : \A m \in good : k <= m,
                    CHOOSE k \in good : \A m \in good : k >= m)

filter_candidates_remove_nans(cands, values) ==
    [j \in 1..Len(cands) |-> candidate_remove_nans(cands[j], values)]

\* variant of long_enough: > in place of >=
longer_than(candidate, ts, min_dur) ==
    /\ Len(candidate) > 0
    /\ ts[candidate[Len(candidate)] + 1] - ts[candidate[1] + 1] > min_dur

\* lines 71-75: the test of the duration filter for one candidate
long_enough(candidate, ts, min_dur) ==
    /\ Len(candidate) > 0
    /\ ts[candidate[Len(candidate)] + 1] - ts[candidate[1] + 1] >= min_dur

\* lines 71-75
filter_duration(cands, ts, min_dur) ==
    LET kept == Ascending({j \in 1..Len(cands) : long_enough(cands[j], ts, min_dur)})
    IN  [k \in 1..Len(kept) |-> cands[kept[k]]]

\* variant of event_df: onsets and offsets exchanged
event_df_swapped(cands, ts) ==
    [k \in 1..Len(cands) |->
        [name   |-> "saccade",
         onset  |-> ts[cands[k][Len(cands[k])] + 1],
         offset |-> ts[cands[k][1] + 1]]]

\* lines 78-83: EventDataFrame(name='saccade', onsets=..., offsets=...)
event_df(cands, ts) ==
    [k \in 1..Len(cands) |->
        [name   |-> "saccade",
         onset  |-> ts[cands[k][1] + 1],
         offset |-> ts[cands[k][Len(cands[k])] + 1]]]

\* variant of candidates_of: the runs are never trimmed
candidates_untrimmed(indices, vel, with_nan) == consecutive(indices)

\* lines 60-68: the candidates handed to the duration filter
candidates_of(indices, vel, with_nan) ==
    IF with_nan THEN filter_candidates_remove_nans(consecutive(indices), vel)
    ELSE consecutive(indices)

microsaccades ==
    /\ pc = "call"
    /\ LET error == microsaccades_error(positions, velocities, timesteps,
                                        threshold, minimum_threshold)
           ts      == resolve_timesteps(timesteps, velocities)
           radius  == radius_of(resolve_threshold(threshold, velocities),
                                threshold_factor)
           indices == where(candidate_mask_of(velocities, radius, include_nan))
           cands   == candidates_of(indices, velocities, include_nan)
       IN  IF error # ""
           THEN /\ pc' = "raised"
                /\ raised' = error
                /\ UNCHANGED <<candidate_indices, candidates, events>>
           ELSE /\ pc' = "returned"
                /\ candidate_indices' = indices
                /\ candidates' = cands
                /\ events' = event_df(filter_duration(cands, ts, minimum_duration), ts)
                /\ UNCHANGED raised
    /\ UNCHANGED <<msArgs, grpVars, velVars, laterVars>>

----------------------------------------------------------------------------
(* The calls of microsaccades the model draws. *)

\* a sample inside every ellipse drawn, one outside the unit circle only, one
\* outside every ellipse drawn, one with a missing component beside a large one
Samples == {<<0, 0>>, <<1, 1>>, <<3, 0>>, <<NaN, 3>>}

\* five (0,0) samples, one (50,50) sample, five (0,0) samples
ScenarioVelocities == [i \in 1..11 |-> IF i = 6 THEN <<50, 50>> ELSE <<0, 0>>]

VelocityInputs == SeqsUpTo(Samples, MaxLen) \cup {ScenarioVelocities}

ZeroRows(n, width) == [i \in 1..n |-> [c \in 1..width |-> 0]]

\* the default, ticks that repeat (non-decreasing), ticks that decrease
TimestepInputs(n) ==
    { [none |-> TRUE],
      [arr |-> [i \in 1..n |-> 10 + i \div 2]],
      [arr |-> [i \in 1..n |-> n - i]] }

ThresholdInputs ==
    {[arr |-> <<1, 1>>], [arr |-> <<2, 1>>], [arr |-> <<0, 1>>], [str |-> "engbert2015"]}

\* minimum_threshold as Sq8: 0, the default 1e-10 (as Sq8 it lies strictly
\* between 0 and 1, the two smallest values a threshold of the model takes, so
\* that 1 compares with every threshold as the default does), and 1
MinimumThresholdInputs == {0, 1, Sq8(1)}

Call(pos, vel, ts, dur, th, factor, min_th, nan) ==
    /\ positions = pos
    /\ velocities = vel
    /\ timesteps = ts
    /\ minimum_duration = dur
    /\ threshold = th
    /\ threshold_factor = factor
    /\ minimum_threshold = min_th
    /\ include_nan = nan

\* calls that pass the checks of shape, length and threshold form
MainCalls ==
    \E vel \in VelocityInputs, dur \in 0..1, th \in ThresholdInputs,
       factor \in 1..2, min_th \in MinimumThresholdInputs, nan \in BOOLEAN :
        \E ts \in TimestepInputs(Len(vel)) :
            Call(ZeroRows(Len(vel), 2), vel, ts, dur, th, factor, min_th, nan)

\* one malformed argument each, the others plain
EdgeCalls ==
    \E vel \in SeqsUpTo(Samples, 2), th \in ThresholdInputs,
       min_th \in MinimumThresholdInputs :
        LET n    == Len(vel)
            none == [none |-> TRUE]
        IN  \/ Call(ZeroRows(n + 1, 2), vel, none, 0, th, 1, min_th, FALSE)
            \/ Call(ZeroRows(n, 3), vel, none, 0, th, 1, min_th, FALSE)
            \/ Call(ZeroRows(n, 2), vel, [arr |-> [i \in 1..(n + 1) |-> i]],
                    0, th, 1, min_th, FALSE)
            \/ Call(ZeroRows(n, 2), vel, none, 0, [str |-> "median"], 1, min_th, FALSE)
            \/ Call(ZeroRows(n, 2), vel, none, 0, [arr |-> <<1, 1, 1>>], 1, min_th, FALSE)

IdleMicrosaccades ==
    /\ positions = <<>> /\ velocities = <<>> /\ timesteps = [none |-> TRUE]
    /\ minimum_duration = 6 /\ threshold = [str |-> "engbert2015"]
    /\ threshold_factor = 6 /\ minimum_threshold = 1 /\ include_nan = FALSE
    /\ candidate_indices = <<>> /\ candidates = <<>> /\ events = <<>>

IdleGrouping == index_arr = <<>> /\ runs = <<>>

IdlePos2vel ==
    /\ p2v_arr = <<>> /\ p2v_sampling_rate = 1000 /\ p2v_method = "smooth"
    /\ p2v_kwargs = FALSE /\ p2v_v = <<>> /\ p2v_written = <<>>

IdlePix2deg ==
    /\ p2d_arr = <<>> /\ p2d_screen_px = <<>> /\ p2d_screen_cm = <<>>
    /\ p2d_distance_cm = 1 /\ p2d_origin = "center" /\ p2d_result = <<>>

IdleProperty ==
    /\ prop_name = "duration" /\ prop_columns = <<>> /\ prop_window = <<>>
    /\ prop_value = <<>>

IdleProcess ==
    /\ proc_events = <<>> /\ proc_gaze = <<>> /\ proc_identifiers = <<>>
    /\ proc_properties = <<>> /\ proc_kwargs = <<>> /\ proc_groups = <<>>
    /\ proc_result = <<>>

IdleDataset ==
    /\ ds_gaze = <<>> /\ ds_events = <<>> /\ ds_call = <<>> /\ ds_before = <<>>
    /\ ds_detected = <<>> /\ ds_invoked = <<>> /\ ds_calls = 0

IdleOptions ==
    /\ opt_callee = "" /\ opt_option = <<>> /\ opt_arr = <<>> /\ opt_result = <<>>
    /\ opt_message = <<>>

IdleTransform ==
    /\ tr_stage = "" /\ tr_gaze = <<>> /\ tr_call = <<>> /\ tr_before = <<>>
    /\ tr_calls = 0

IdleThreshold == thr_arr = <<>> /\ thr_k = 1 /\ thr_base = <<>> /\ thr_scaled = <<>>

IdleDownload ==
    /\ dl_definition = <<>> /\ dl_call = <<>> /\ dl_present = {}
    /\ dl_attempts = <<>> /\ dl_extracted = <<>>

IdleRest == IdleDataset /\ IdleOptions /\ IdleTransform /\ IdleThreshold /\ IdleDownload

IdleLater == IdlePix2deg /\ IdleProperty /\ IdleProcess /\ IdleRest

InitMicrosaccades ==
    /\ MainCalls \/ EdgeCalls
    /\ IdleGrouping /\ IdlePos2vel /\ IdleLater
    /\ candidate_indices = <<>>
    /\ candidates = <<>>
    /\ events = <<>>
    /\ raised = ""
    /\ pc = "call"

NextMicrosaccades == microsaccades

SpecMicrosaccades == InitMicrosaccades /\ [][NextMicrosaccades]_vars

----------------------------------------------------------------------------
(* Properties of microsaccades, stated on the arguments and the result. *)

NSamples == Len(velocities)

\* the tick of sample i (0-based)
Tick(i) == resolve_timesteps(timesteps, velocities)[i + 1]

\* the calls whose arguments have the documented form: (N, 2) arrays, N ticks
WellFormedCall ==
    /\ IsShapeN2(positions) /\ IsShapeN2(velocities)
    /\ Len(positions) = NSamples
    /\ Len(resolve_timesteps(timesteps, velocities)) = NSamples

\* the radius of an explicit threshold, in the units of the velocities
ExplicitRadius(c) == threshold.arr[c] * threshold_factor

\* (vx/rx)^2 + (vy/ry)^2 > 1 for sample i and an explicit threshold, as doubles
\* evaluate it: with a zero radius x/0 is inf (x # 0) or NaN (x = 0)
ExplicitExceeds(i) ==
    LET vx == velocities[i + 1][1]
        vy == velocities[i + 1][2]
        rx == ExplicitRadius(1)
        ry == ExplicitRadius(2)
    IN  /\ ~isnan(vx) /\ ~isnan(vy)
        /\ ~(rx = 0 /\ vx = 0) /\ ~(ry = 0 /\ vy = 0)
        /\ \/ rx = 0
           \/ ry = 0
           \/ vx * vx * ry * ry + vy * vy * rx * rx > rx * rx * ry * ry

\* the maximal runs <<first, last>> of consecutive sample indices that exceed
ExplicitRuns ==
    {r \in (0..(NSamples - 1)) \X (0..(NSamples - 1)) :
        /\ r[1] <= r[2]
        /\ \A i \in r[1]..r[2] : ExplicitExceeds(i)
        /\ r[1] = 0 \/ ~ExplicitExceeds(r[1] - 1)
        /\ r[2] = NSamples - 1 \/ ~ExplicitExceeds(r[2] + 1)}

ExplicitKeptRuns ==
    {r \in ExplicitRuns : Tick(r[2]) - Tick(r[1]) >= minimum_duration}

IsScenarioCall ==
    /\ velocities = ScenarioVelocities
    /\ ~IsStr(threshold) /\ threshold.arr = <<1, 1>>
    /\ threshold_factor = 1 /\ minimum_duration = 0
    /\ IsNone(timesteps) /\ ~include_nan

\* C1: with include_nan false and an explicit threshold, the events are exactly
\* the maximal runs of samples outside the ellipse that pass the duration
\* filter, in order, each named 'saccade' with onset and offset the ticks of
\* the run's first and last sample; the scenario of the specification gives
\* exactly one event with onset = offset = 5.
C1_EventsAreTheKeptRuns ==
    (pc = "returned" /\ ~include_nan /\ ~IsStr(threshold)) =>
        /\ Len(events) = Cardinality(ExplicitKeptRuns)
        /\ \A r \in ExplicitKeptRuns :
            events[1 + Cardinality({q \in ExplicitKeptRuns : q[1] < r[1]})]
                = [name |-> "saccade", onset |-> Tick(r[1]), offset |-> Tick(r[2])]
        /\ IsScenarioCall =>
            events = <<[name |-> "saccade", onset |-> 5, offset |-> 5]>>

C1_Witness ==
    /\ pc = "returned" /\ IsScenarioCall
    /\ events = <<[name |-> "saccade", onset |-> 5, offset |-> 5]>>

\* the resolved threshold exists: a known method name or two components
ThresholdResolves ==
    IF IsStr(threshold) THEN threshold.str \in valid_methods
    ELSE Len(threshold.arr) = 2

\* component c of the resolved threshold, as Sq8
ResolvedThreshold(c) ==
    IF IsStr(threshold) THEN engbert2015(Column(velocities, c))
    ELSE Sq8(threshold.arr[c])

\* component c of the resolved threshold compares below the minimum
ComponentBelowMinimum(c) ==
    ~isnan(ResolvedThreshold(c)) /\ ResolvedThreshold(c) < minimum_threshold

ComponentEqualsMinimum(c) ==
    ~isnan(ResolvedThreshold(c)) /\ ResolvedThreshold(c) = minimum_threshold

\* C2: whenever a component of the resolved threshold is below
\* minimum_threshold, the call raises and returns no events, whatever the
\* other arguments are.
C2_BelowMinimumRaises ==
    (pc # "call" /\ ThresholdResolves /\ \E c \in 1..2 : ComponentBelowMinimum(c)) =>
        pc = "raised" /\ events = <<>>

C2_Witness ==
    /\ pc = "raised" /\ raised = "minimum_threshold"
    /\ IsStr(threshold) /\ NSamples > 0 /\ include_nan
    /\ ~ComponentBelowMinimum(1) /\ ComponentBelowMinimum(2)

\* C3 as stated: a threshold with a component exactly equal to
\* minimum_threshold is rejected.
C3_EqualToMinimumRaises ==
    (pc # "call" /\ ThresholdResolves /\ \E c \in 1..2 : ComponentEqualsMinimum(c)) =>
        pc = "raised"

\* C3, amended: the call returns only if no component of the resolved threshold
\* is below minimum_threshold, and a well-formed call whose threshold has a
\* component equal to minimum_threshold and none below it returns.
C3_RejectedIffBelowMinimum ==
    /\ pc = "returned" => \A c \in 1..2 : ~ComponentBelowMinimum(c)
    /\ ( /\ pc # "call" /\ WellFormedCall /\ ThresholdResolves
         /\ \E c \in 1..2 : ComponentEqualsMinimum(c)
         /\ \A c \in 1..2 : ~ComponentBelowMinimum(c) ) => pc = "returned"

C3_Witness ==
    /\ pc = "returned" /\ minimum_threshold > 0
    /\ ComponentEqualsMinimum(1) /\ ComponentEqualsMinimum(2)
    /\ events # <<>>

\* the call passes every check of lines 30-48
AcceptableCall ==
    /\ WellFormedCall /\ ThresholdResolves
    /\ \A c \in 1..2 : ~ComponentBelowMinimum(c)

\* component c of the radius, as Sq8
Radius(c) ==
    IF isnan(ResolvedThreshold(c)) THEN NaN
    ELSE ResolvedThreshold(c) * threshold_factor * threshold_factor

IsMissing(i) == isnan(velocities[i + 1][1]) \/ isnan(velocities[i + 1][2])

\* (vx/rx)^2 + (vy/ry)^2 > 1 for sample i and the resolved threshold, as doubles
\* evaluate it
Exceeds(i) ==
    LET vx == velocities[i + 1][1]
        vy == velocities[i + 1][2]
    IN  /\ ~IsMissing(i) /\ ~isnan(Radius(1)) /\ ~isnan(Radius(2))
        /\ ~(Radius(1) = 0 /\ vx = 0) /\ ~(Radius(2) = 0 /\ vy = 0)
        /\ \/ Radius(1) = 0
           \/ Radius(2) = 0
           \/ 8 * vx * vx * Radius(2) + 8 * vy * vy * Radius(1) > Radius(1) * Radius(2)

SampleIndices == 0..(NSamples - 1)

First(run) == run[1]
Last(run)  == run[Len(run)]

\* C4: when no sample is a candidate (none outside the ellipse and, with
\* include_nan, none missing), an acceptable call returns, the grouping of the
\* empty index set is one empty run, and no event is emitted.
C4_NoCandidateNoEvent ==
    ( /\ pc # "call" /\ AcceptableCall
      /\ \A i \in SampleIndices : ~Exceeds(i) /\ ~(include_nan /\ IsMissing(i)) ) =>
        /\ pc = "returned"
        /\ candidate_indices = <<>>
        /\ candidates = << <<>> >>
        /\ events = <<>>

C4_Witness ==
    /\ pc = "returned" /\ NSamples >= 2
    /\ \E i \in SampleIndices : velocities[i + 1] = <<1, 1>>
    /\ candidate_indices = <<>> /\ candidates = << <<>> >> /\ events = <<>>

NonDecreasingTicks ==
    \A i \in SampleIndices : i + 1 \in SampleIndices => Tick(i) <= Tick(i + 1)

\* the duration test, on a run of the detector
SpansMinimumDuration(run) ==
    Len(run) > 0 /\ Tick(Last(run)) - Tick(First(run)) >= minimum_duration

\* C5: for non-decreasing ticks every event has onset <= offset, consecutive
\* events do not overlap (offset_k <= onset_(k+1)), the events are those of the
\* runs that pass the duration filter, in order, and between two consecutive
\* such runs lies a sample index that is no candidate.
C5_EventsOrderedAndDisjoint ==
    (pc = "returned" /\ NonDecreasingTicks) =>
        LET kept == SelectSeq(candidates, SpansMinimumDuration)
        IN  /\ Len(events) = Len(kept)
            /\ \A k \in 1..Len(events) :
                /\ events[k].onset <= events[k].offset
                /\ events[k].onset = Tick(First(kept[k]))
                /\ events[k].offset = Tick(Last(kept[k]))
            /\ \A k \in 1..(Len(events) - 1) :
                /\ events[k].offset <= events[k + 1].onset
                /\ \E i \in SampleIndices :
                    /\ Last(kept[k]) < i /\ i < First(kept[k + 1])
                    /\ i \notin Range(candidate_indices)

C5_Witness ==
    /\ pc = "returned" /\ NonDecreasingTicks /\ ~IsNone(timesteps)
    /\ Len(events) = 2
    /\ events[1].onset < events[1].offset
    /\ events[1].offset <= events[2].onset

\* the event of a run
EventOf(run) ==
    [name |-> "saccade", onset |-> Tick(First(run)), offset |-> Tick(Last(run))]

\* C6: a non-empty candidate run yields an event if and only if
\* timesteps[last] - timesteps[first] >= minimum_duration.
C6_DurationFilterInclusive ==
    pc = "returned" =>
        /\ \A j \in 1..Len(candidates) :
            Len(candidates[j]) > 0 =>
                ( (\E k \in 1..Len(events) : events[k] = EventOf(candidates[j]))
                  <=> Tick(Last(candidates[j])) - Tick(First(candidates[j]))
                        >= minimum_duration )
        /\ Len(events) = Len(SelectSeq(candidates, SpansMinimumDuration))

\* a run whose span equals minimum_duration >= 1 is kept, and one whose span
\* is minimum_duration - 1 is dropped
C6_Witness ==
    /\ pc = "returned" /\ minimum_duration >= 1 /\ IsNone(timesteps)
    /\ \E j, d \in 1..Len(candidates) :
        /\ Len(candidates[j]) = minimum_duration + 1
        /\ Len(candidates[d]) = minimum_duration
        /\ events = <<EventOf(candidates[j])>>

\* C7: with include_nan false a sample with a missing velocity component is
\* never a candidate: it is in no candidate run, nor inside the index range of
\* one, and a candidate just before it ends its run.
C7_MissingNeverCandidate ==
    (pc = "returned" /\ ~include_nan) =>
        \A i \in SampleIndices :
            IsMissing(i) =>
                /\ i \notin Range(candidate_indices)
                /\ \A j \in 1..Len(candidates) :
                    Len(candidates[j]) > 0 =>
                        ~(First(candidates[j]) <= i /\ i <= Last(candidates[j]))
                /\ (i - 1) \in Range(candidate_indices) =>
                    \E j \in 1..Len(candidates) :
                        Len(candidates[j]) > 0 /\ Last(candidates[j]) = i - 1
                /\ IsNone(timesteps) =>
                    \A k \in 1..Len(events) :
                        ~(events[k].onset <= i /\ i <= events[k].offset)

\* a missing sample between two samples outside the ellipse splits them
C7_Witness ==
    /\ pc = "returned" /\ ~include_nan /\ NSamples = 3 /\ IsNone(timesteps)
    /\ IsMissing(1)
    /\ events = <<[name |-> "saccade", onset |-> 0, offset |-> 0],
                  [name |-> "saccade", onset |-> 2, offset |-> 2]>>

\* C8: with include_nan true every sample with a missing velocity component is
\* a candidate, every non-empty run handed to the duration filter starts and
\* ends at a sample that is not missing, and (ticks being the sample indices)
\* no event has its onset or offset at a missing sample.
C8_MissingTrimmedAtRunEnds ==
    (pc = "returned" /\ include_nan) =>
        /\ \A i \in SampleIndices : IsMissing(i) => i \in Range(candidate_indices)
        /\ \A j \in 1..Len(candidates) :
            Len(candidates[j]) > 0 =>
                ~IsMissing(First(candidates[j])) /\ ~IsMissing(Last(candidates[j]))
        /\ IsNone(timesteps) =>
            \A k \in 1..Len(events) :
                ~IsMissing(events[k].onset) /\ ~IsMissing(events[k].offset)

\* a missing sample inside an event, bridging two samples outside the ellipse
C8_Witness ==
    /\ pc = "returned" /\ include_nan /\ NSamples = 3 /\ IsNone(timesteps)
    /\ IsMissing(1)
    /\ events = <<[name |-> "saccade", onset |-> 0, offset |-> 2]>>

\* leading and trailing missing samples trimmed from a run
C8_WitnessTrimmed ==
    /\ pc = "returned" /\ include_nan /\ NSamples = 3 /\ IsNone(timesteps)
    /\ IsMissing(0) /\ IsMissing(2)
    /\ candidate_indices = <<0, 1, 2>>
    /\ events = <<[name |-> "saccade", onset |-> 1, offset |-> 1]>>

----------------------------------------------------------------------------
(* The run-length grouping called on its own, on every strictly increasing   *)
(* index sequence over 0..MaxIndex.                                         *)

InitGrouping ==
    /\ \E S \in SUBSET (0..MaxIndex) : index_arr = Ascending(S)
    /\ runs = <<>>
    /\ pc = "call" /\ raised = ""
    /\ IdleMicrosaccades /\ IdlePos2vel /\ IdleLater

Consecutive ==
    /\ pc = "call"
    /\ runs' = consecutive(index_arr)
    /\ pc' = "returned"
    /\ UNCHANGED <<index_arr, raised, msVars, velVars, laterVars>>

NextGrouping == Consecutive

SpecGrouping == InitGrouping /\ [][NextGrouping]_vars

RECURSIVE Flatten(_)
Flatten(ss) == IF ss = <<>> THEN <<>> ELSE Head(ss) \o Flatten(Tail(ss))

\* the runs partition the input, in order, into maximal runs
IsMaximalRunPartition ==
    /\ Flatten(runs) = index_arr
    /\ \A j \in 1..Len(runs) : \A k \in 1..(Len(runs[j]) - 1) :
        runs[j][k + 1] - runs[j][k] = 1
    /\ \A j \in 1..(Len(runs) - 1) :
        (Len(runs[j]) > 0 /\ Len(runs[j + 1]) > 0) =>
            First(runs[j + 1]) - Last(runs[j]) > 1
    /\ index_arr = <<2, 3, 7, 8, 9>> => runs = << <<2, 3>>, <<7, 8, 9>> >>

\* C9 as stated: the grouping returns the partition into maximal runs and
\* every returned run is non-empty, including for the empty input.
C9_RunsPartitionAllNonEmpty ==
    pc = "returned" =>
        /\ IsMaximalRunPartition
        /\ \A j \in 1..Len(runs) : Len(runs[j]) > 0

\* C9, amended: the grouping returns the partition into maximal runs; every
\* run is non-empty when the input is non-empty, and for the empty input the
\* result is a single empty run.
C9_RunsPartition ==
    pc = "returned" =>
        /\ IsMaximalRunPartition
        /\ index_arr # <<>> => \A j \in 1..Len(runs) : Len(runs[j]) > 0
        /\ index_arr = <<>> => runs = << <<>> >>

C9_Witness ==
    /\ pc = "returned"
    /\ index_arr = <<2, 3, 7, 8, 9>>
    /\ runs = << <<2, 3>>, <<7, 8, 9>> >>

C9_WitnessEmpty == pc = "returned" /\ index_arr = <<>> /\ runs = << <<>> >>

----------------------------------------------------------------------------
(* gaze/transforms.py: pos2vel                                               *)
(*                                                                          *)
(* An array is [ndim |-> d, rows |-> r]: r[i + 1] is sample i, a sequence   *)
(* with one entry per channel (one entry when ndim = 1).  The velocities    *)
(* are in sixths: the entry for the double v is 6 * v.                      *)

\* n / d in sixths, for d among 1, 2, 3, 6
Over(n, d) == (6 * n) \div d

Channels(a) == IF Len(a.rows) = 0 THEN {} ELSE 1..Len(a.rows[1])

\* variant of pos2vel_error: an array of exactly the minimum length is refused
pos2vel_error_minimum_refused(a, rate, meth, kw) ==
    IF rate <= 0 THEN "sampling_rate"
    ELSE IF a.ndim \notin {1, 2} THEN "ndim"
    ELSE IF meth = "smooth" /\ Len(a.rows) <= 6 THEN "length"
    ELSE IF meth = "neighbors" /\ Len(a.rows) <= 3 THEN "length"
    ELSE IF meth = "preceding" /\ Len(a.rows) <= 2 THEN "length"
    ELSE IF meth # "savitzky_golay" /\ kw THEN "kwargs"
    ELSE IF meth \notin {"smooth", "neighbors", "preceding", "savitzky_golay"}
         THEN "method"
    ELSE ""

\* the ValueError pos2vel raises, "" when it raises none (lines 85-110, 153-157)
pos2vel_error(a, rate, meth, kw) ==
    IF rate <= 0 THEN "sampling_rate"
    ELSE IF a.ndim \notin {1, 2} THEN "ndim"
    ELSE IF meth = "smooth" /\ Len(a.rows) < 6 THEN "length"
    ELSE IF meth = "neighbors" /\ Len(a.rows) < 3 THEN "length"
    ELSE IF meth = "preceding" /\ Len(a.rows) < 2 THEN "length"
    ELSE IF meth # "savitzky_golay" /\ kw THEN "kwargs"
    ELSE IF meth \notin {"smooth", "neighbors", "preceding", "savitzky_golay"}
         THEN "method"
    ELSE ""

\* line 113: v = np.zeros(arr.shape), no index written yet
zeros(a) ==
    [v       |-> [i \in 1..Len(a.rows) |-> [c \in Channels(a) |-> 0]],
     written |-> [i \in 1..Len(a.rows) |-> 0]]

\* v[lo:hi] = vals, for 0 <= lo and hi <= N: sample lo + k gets vals[k + 1]
assign_slice(s, lo, hi, vals) ==
    [v       |-> [i \in 1..Len(s.v) |->
                    IF lo <= i - 1 /\ i - 1 < hi THEN vals[i - lo] ELSE s.v[i]],
     written |-> [i \in 1..Len(s.v) |->
                    IF lo <= i - 1 /\ i - 1 < hi THEN s.written[i] + 1
                    ELSE s.written[i]]]

\* v[at] = val
assign_at(s, at, val) == assign_slice(s, at, at + 1, <<val>>)

\* (arr[i] - arr[j]) * sampling_rate / d for samples i, j (0-based), per channel
difference(a, i, j, rate, d) ==
    [c \in Channels(a) |-> Over((a.rows[i + 1][c] - a.rows[j + 1][c]) * rate, d)]

\* variant of smooth_first: the first sample without the division by two
smooth_first_undivided(a, rate) == difference(a, 1, 0, rate, 1)

\* line 131: v[0]
smooth_first(a, rate) == difference(a, 1, 0, rate, 2)

\* lines 116-132
smooth(a, rate) ==
    LET N          == Len(a.rows)
        \* line 118: arr[4:N] + arr[3:N-1] - arr[1:N-3] - arr[0:N-4]
        moving_avg == [k \in 1..(N - 4) |-> [c \in Channels(a) |->
                          a.rows[k + 4][c] + a.rows[k + 3][c]
                            - a.rows[k + 1][c] - a.rows[k][c]]]
        \* line 122
        s1 == assign_slice(zeros(a), 2, N - 2,
                  [k \in 1..(N - 4) |-> [c \in Channels(a) |->
                      Over(moving_avg[k][c] * rate, 6)]])
        \* lines 126-127
        s2 == assign_at(s1, 1, difference(a, 2, 0, rate, 2))
        s3 == assign_at(s2, N - 2, difference(a, N - 1, N - 3, rate, 2))
        \* lines 131-132
        s4 == assign_at(s3, 0, smooth_first(a, rate))
    IN  assign_at(s4, N - 1, difference(a, N - 1, N - 2, rate, 2))

\* lines 134-136: v[1:N-1] = (arr[2:N] - arr[0:N-2]) * sampling_rate / 2
neighbors(a, rate) ==
    LET N == Len(a.rows)
    IN  assign_slice(zeros(a), 1, N - 1,
            [k \in 1..(N - 2) |-> difference(a, k + 1, k - 1, rate, 2)])

\* variant of preceding: the difference to the preceding sample halved
preceding_halved(a, rate) ==
    LET N == Len(a.rows)
    IN  assign_slice(zeros(a), 1, N,
            [k \in 1..(N - 1) |-> difference(a, k, k - 1, rate, 2)])

\* lines 138-139: v[1:N] = (arr[1:N] - arr[0:N-1]) * sampling_rate
preceding(a, rate) ==
    LET N == Len(a.rows)
    IN  assign_slice(zeros(a), 1, N,
            [k \in 1..(N - 1) |-> difference(a, k, k - 1, rate, 1)])

pos2vel ==
    /\ pc = "call"
    /\ LET error  == pos2vel_error(p2v_arr, p2v_sampling_rate, p2v_method, p2v_kwargs)
           result == IF p2v_method = "smooth" THEN smooth(p2v_arr, p2v_sampling_rate)
                     ELSE IF p2v_method = "neighbors"
                          THEN neighbors(p2v_arr, p2v_sampling_rate)
                     ELSE preceding(p2v_arr, p2v_sampling_rate)
       IN  IF error # ""
           THEN /\ pc' = "raised"
                /\ raised' = error
                /\ UNCHANGED <<p2v_v, p2v_written>>
           ELSE /\ pc' = "returned"
                /\ p2v_v' = [ndim |-> p2v_arr.ndim, rows |-> result.v]
                /\ p2v_written' = result.written
                /\ UNCHANGED raised
    /\ UNCHANGED <<velArgs, msVars, grpVars, laterVars>>

\* the position values drawn
PositionValues == {0, 1, 3}

\* one-channel arrays, two-channel arrays whose second channel is 2x + 1 of the
\* first, and the dimensions pos2vel refuses.  Of the four methods the code
\* names, savitzky_golay (a call into scipy) is not drawn; "linear" is unknown.
PositionInputs ==
    UNION { { [ndim |-> 1, rows |-> [i \in 1..Len(xs) |-> <<xs[i]>>]],
              [ndim |-> 2, rows |-> [i \in 1..Len(xs) |-> <<xs[i], 2 * xs[i] + 1>>]] } :
            xs \in SeqsUpTo(PositionValues, MaxSamples) }
    \cup { [ndim |-> 0, rows |-> << <<1>> >>],
           [ndim |-> 3, rows |-> << <<1>>, <<3>> >>] }

InitPos2vel ==
    /\ p2v_arr \in PositionInputs
    /\ p2v_sampling_rate \in {0, 2}
    /\ p2v_method \in {"smooth", "neighbors", "preceding", "linear"}
    /\ p2v_kwargs \in BOOLEAN
    /\ p2v_v = <<>> /\ p2v_written = <<>>
    /\ pc = "call" /\ raised = ""
    /\ IdleMicrosaccades /\ IdleGrouping /\ IdleLater

NextPos2vel == pos2vel

SpecPos2vel == InitPos2vel /\ [][NextPos2vel]_vars

\* sample i (0-based) of channel c of the input and, in sixths, of the output
X(i, c)  == p2v_arr.rows[i + 1][c]
V6(i, c) == p2v_v.rows[i + 1][c]

\* C10: for method 'smooth' and N >= 6 samples, per channel,
\* v[i] = (x[i+2] + x[i+1] - x[i-1] - x[i-2]) * rate / 6 for 2 <= i <= N-3,
\* v[1] = (x[2] - x[0]) * rate / 2, v[N-2] = (x[N-1] - x[N-3]) * rate / 2,
\* v[0] = (x[1] - x[0]) * rate / 2, v[N-1] = (x[N-1] - x[N-2]) * rate / 2,
\* and every output index is written exactly once.
C10_SmoothFormulas ==
    (pc = "returned" /\ p2v_method = "smooth" /\ Len(p2v_arr.rows) >= 6) =>
        LET N    == Len(p2v_arr.rows)
            rate == p2v_sampling_rate
        IN  /\ Len(p2v_v.rows) = N
            /\ \A c \in Channels(p2v_arr) :
                /\ \A i \in 2..(N - 3) :
                    V6(i, c) = (X(i + 2, c) + X(i + 1, c) - X(i - 1, c) - X(i - 2, c)) * rate
                /\ V6(1, c) = 3 * (X(2, c) - X(0, c)) * rate
                /\ V6(N - 2, c) = 3 * (X(N - 1, c) - X(N - 3, c)) * rate
                /\ V6(0, c) = 3 * (X(1, c) - X(0, c)) * rate
                /\ V6(N - 1, c) = 3 * (X(N - 1, c) - X(N - 2, c)) * rate
            /\ \A i \in 1..N : p2v_written[i] = 1

\* seven samples, two channels, every rule giving a non-zero velocity
C10_Witness ==
    /\ pc = "returned" /\ p2v_method = "smooth"
    /\ Len(p2v_arr.rows) = 7 /\ p2v_arr.ndim = 2
    /\ \A i \in 0..6 : V6(i, 1) # 0
    /\ V6(3, 1) # 3 * (X(4, 1) - X(2, 1)) * p2v_sampling_rate

\* C11: for method 'preceding' and N >= 2 samples, per channel, v[0] = 0 and
\* v[i] = (x[i] - x[i-1]) * rate for 1 <= i <= N-1, and the output has the
\* shape of the input.
C11_PrecedingFormulas ==
    (pc = "returned" /\ p2v_method = "preceding" /\ Len(p2v_arr.rows) >= 2) =>
        LET N == Len(p2v_arr.rows)
        IN  /\ p2v_v.ndim = p2v_arr.ndim
            /\ Len(p2v_v.rows) = N
            /\ \A i \in 1..N : DOMAIN p2v_v.rows[i] = DOMAIN p2v_arr.rows[i]
            /\ \A c \in Channels(p2v_arr) :
                /\ V6(0, c) = 0
                /\ \A i \in 1..(N - 1) :
                    V6(i, c) = 6 * (X(i, c) - X(i - 1, c)) * p2v_sampling_rate

\* three samples in two channels, a non-zero first sample and non-zero steps
C11_Witness ==
    /\ pc = "returned" /\ p2v_method = "preceding"
    /\ Len(p2v_arr.rows) = 3 /\ p2v_arr.ndim = 2
    /\ X(0, 1) # 0
    /\ V6(1, 1) # 0 /\ V6(2, 2) # 0 /\ V6(1, 1) # V6(2, 1)

\* the fewest samples a method accepts (lines 95-106)
MinimumSamples(meth) ==
    IF meth = "smooth" THEN 6 ELSE IF meth = "neighbors" THEN 3 ELSE 2

\* the call passes every check of pos2vel other than the one on the length
OtherwiseValid ==
    /\ p2v_sampling_rate > 0
    /\ p2v_arr.ndim \in {1, 2}
    /\ p2v_method \in {"smooth", "neighbors", "preceding"}
    /\ ~p2v_kwargs

\* C12: with fewer samples than the method's minimum (smooth 6, neighbors 3,
\* preceding 2) pos2vel raises and returns no velocity; with exactly the
\* minimum it returns a result.
C12_MinimumSamples ==
    (pc # "call" /\ p2v_method \in {"smooth", "neighbors", "preceding"}) =>
        LET N == Len(p2v_arr.rows)
        IN  /\ N < MinimumSamples(p2v_method) =>
                    pc = "raised" /\ raised # "" /\ p2v_v = <<>>
            /\ (N = MinimumSamples(p2v_method) /\ OtherwiseValid) =>
                    pc = "returned" /\ Len(p2v_v.rows) = N

\* smooth returns for six samples
C12_Witness ==
    /\ pc = "returned" /\ p2v_method = "smooth" /\ Len(p2v_arr.rows) = 6
    /\ OtherwiseValid

\* smooth raises on the length for five samples
C12_WitnessRaised ==
    /\ pc = "raised" /\ raised = "length"
    /\ p2v_method = "smooth" /\ Len(p2v_arr.rows) = 5

----------------------------------------------------------------------------
(* gaze/transforms.py: pix2deg                                              *)
(*                                                                          *)
(* An array is [shape |-> s, data |-> d]: s is the numpy shape (<<>> for a  *)
(* scalar, <<n>> for a list, <<m, n>> for a list of lists) and d the        *)
(* elements in row-major order.  None is [none |-> TRUE].                   *)
(* An angle is carried exactly, as the direction it points to: arctan2(y, x)*)
(* for rationals y, x is the pair of coprime integers <<p, q>> with         *)
(* (p, q) a positive multiple of (y, x).                                    *)

scalar(v) == [shape |-> <<>>, data |-> <<v>>]
list(vs)  == [shape |-> <<Len(vs)>>, data |-> vs]

ndim(a) == Len(a.shape)
\* a.shape[-1]; taken as 1 for a scalar, which broadcasts like one element
last_dim(a) == IF a.shape = <<>> THEN 1 ELSE a.shape[Len(a.shape)]

\* variant of check_no_zeros: only the first component is looked at
check_no_zeros_first(variable) == variable.data[1] = 0

\* utils/checks.py: check_no_zeros raises; a scalar is not iterable and is
\* compared itself, a list is iterated
check_no_zeros(variable) == \E k \in 1..Len(variable.data) : variable.data[k] = 0

\* np.tile(screen, 2)
tile2(screen) == list(screen.data \o screen.data)

\* the error pix2deg raises before it computes, "" when it raises none
\* (lines 22-64); a scalar argument has shape <<>>, a list of n numbers <<n>>
pix2deg_checks(a, px, cm, distance_cm) ==
    IF "none" \in DOMAIN a THEN "arr must not be None"
    ELSE IF check_no_zeros(px) THEN "screen_px must not be zero"
    \* line 26 names screen_px in the message for screen_cm
    ELSE IF check_no_zeros(cm) THEN "screen_px must not be zero"
    ELSE IF distance_cm = 0 THEN "distance_cm must not be zero"
    ELSE IF ndim(a) \notin {0, 1, 2} THEN "ndim"
    ELSE IF ndim(a) = 2 /\ last_dim(a) \notin {1, 2, 4} THEN "last coord dimension"
    ELSE IF ndim(a) \in {0, 1} /\ ndim(px) # 0 /\ px.shape # <<1>>
         THEN "arr is 1-dimensional, but screen_px is not"
    ELSE IF ndim(a) \in {0, 1} /\ ndim(cm) # 0 /\ cm.shape # <<1>>
         THEN "arr is 1-dimensional, but screen_cm is not"
    ELSE IF ndim(a) # 0 /\ last_dim(a) = 2 /\ px.shape # <<2>>
         THEN "arr is 2-dimensional, but screen_px is not"
    ELSE IF ndim(a) # 0 /\ last_dim(a) = 2 /\ cm.shape # <<2>>
         THEN "arr is 2-dimensional, but screen_cm is not"
    ELSE IF ndim(a) # 0 /\ last_dim(a) = 4 /\ px.shape # <<2>>
         THEN "arr is 4-dimensional, but screen_px is not 2-dimensional"
    ELSE IF ndim(a) # 0 /\ last_dim(a) = 4 /\ cm.shape # <<2>>
         THEN "arr is 4-dimensional, but screen_cm is not 2-dimensional"
    ELSE ""

\* a rational number n / d, d # 0
Rat(n, d) == [n |-> n, d |-> d]

Abs(n) == IF n < 0 THEN -n ELSE n

RECURSIVE gcd(_, _)
gcd(a, b) == IF b = 0 THEN a ELSE gcd(b, a % b)

\* np.arctan2(y, x) * 180 / np.pi for rationals y, x: the angle, as the
\* coprime pair pointing the way (y, x) points
arctan2(y, x) ==
    LET p == y.n * x.d
        q == x.n * y.d
        s == IF y.d * x.d < 0 THEN -1 ELSE 1
        g == gcd(Abs(p), Abs(q))
    IN  IF g = 0 THEN <<0, 0>> ELSE <<(s * p) \div g, (s * q) \div g>>

\* numpy broadcasting of an array with a screen argument (a scalar or a list)
broadcastable(sa, sb) ==
    LET la == IF sa = <<>> THEN 1 ELSE sa[Len(sa)]
        lb == IF sb = <<>> THEN 1 ELSE sb[Len(sb)]
    IN  la = lb \/ la = 1 \/ lb = 1

broadcast_shape(sa, sb) ==
    LET la == IF sa = <<>> THEN 1 ELSE sa[Len(sa)]
        lb == IF sb = <<>> THEN 1 ELSE sb[Len(sb)]
        l  == IF la = 1 THEN lb ELSE la
    IN  IF Len(sa) = 2 THEN <<sa[1], l>>
        ELSE IF sa = <<>> /\ sb = <<>> THEN <<>>
        ELSE <<l>>

\* element j (1-based) of a screen argument broadcast along the last axis
component(screen, j) == screen.data[IF Len(screen.data) = 1 THEN 1 ELSE j]

\* element (i, j) (1-based) of an array broadcast along the last axis
element(a, i, j) ==
    a.data[(i - 1) * last_dim(a) + (IF last_dim(a) = 1 THEN 1 ELSE j)]

\* variant of recenter: shifted by half the screen width
recenter_by_half_width(coord, screen_px) == Rat(2 * coord - screen_px, 2)

\* line 71: arr - (screen_px - 1) / 2
recenter(coord, screen_px) == Rat(2 * coord - (screen_px - 1), 2)

\* lines 62-76: the error raised while computing ("" when none) and the result
pix2deg_compute(a, screen_px, screen_cm, distance_cm, origin) ==
    LET tiled == ndim(a) # 0 /\ last_dim(a) = 4
        px    == IF tiled THEN tile2(screen_px) ELSE screen_px
        cm    == IF tiled THEN tile2(screen_cm) ELSE screen_cm
        \* line 67: distance_cm * (screen_px / screen_cm)
        distance_shape == broadcast_shape(px.shape, cm.shape)
        distance_px(j) == Rat(distance_cm * component(px, j), component(cm, j))
        shape == broadcast_shape(a.shape, distance_shape)
        rows  == IF Len(shape) = 2 THEN shape[1] ELSE 1
        cols  == IF shape = <<>> THEN 1 ELSE shape[Len(shape)]
        centred(i, j) ==
            IF origin = "lower left"
            THEN recenter(element(a, i, j), component(px, j))
            ELSE Rat(element(a, i, j), 1)
    IN  IF ~broadcastable(px.shape, cm.shape) \/ ~broadcastable(a.shape, distance_shape)
        THEN [error |-> "operands could not be broadcast together"]
        ELSE IF origin \notin {"lower left", "center"}
        THEN [error |-> "origin is not supported"]
        ELSE [error |-> "",
              shape |-> shape,
              data  |-> [k \in 1..(rows * cols) |->
                  LET i == (k - 1) \div cols + 1
                      j == ((k - 1) % cols) + 1
                  IN  arctan2(centred(i, j), distance_px(j))]]

pix2deg ==
    /\ pc = "call"
    /\ LET error == pix2deg_checks(p2d_arr, p2d_screen_px, p2d_screen_cm,
                                   p2d_distance_cm)
           out   == pix2deg_compute(p2d_arr, p2d_screen_px, p2d_screen_cm,
                                    p2d_distance_cm, p2d_origin)
       IN  IF error # ""
           THEN pc' = "raised" /\ raised' = error /\ UNCHANGED p2d_result
           ELSE IF out.error # ""
           THEN pc' = "raised" /\ raised' = out.error /\ UNCHANGED p2d_result
           ELSE /\ pc' = "returned"
                /\ p2d_result' = [shape |-> out.shape, data |-> out.data]
                /\ UNCHANGED raised
    /\ UNCHANGED <<degArgs, msVars, grpVars, velVars, propVars, procVars, restVars>>

\* the most rows and the most pixels per row of a coordinate array drawn
MaxRows == 2
MaxPixels == 4

\* the coordinate arrays drawn: None, scalars, lists of one to four pixels,
\* batches of one or two rows of one to four pixels, and a 3-dimensional array
PixelData(n) == [k \in 1..n |-> (3 * k + 1) % 7]

CoordinateInputs ==
    { [none |-> TRUE], scalar(0), scalar(3),
      [shape |-> <<1, 1, 1>>, data |-> <<1>>] }
    \cup { list(PixelData(n)) : n \in 1..MaxPixels }
    \cup { [shape |-> <<m, n>>, data |-> PixelData(m * n)] : m \in 1..MaxRows, n \in 1..MaxPixels }

\* a screen argument: a number, a list of one number or a list of two
ScreenInputs(values) ==
    { scalar(v) : v \in values } \cup { list(<<v>>) : v \in values }
    \cup { list(<<v, w>>) : v, w \in values }

InitPix2deg ==
    /\ p2d_arr \in CoordinateInputs
    /\ p2d_screen_px \in ScreenInputs({0, 2, 5})
    /\ p2d_screen_cm \in ScreenInputs({0, 1, 2})
    /\ p2d_distance_cm \in {0, 1, 3}
    /\ p2d_origin \in {"lower left", "lower-left", "center", "upper left"}
    /\ p2d_result = <<>>
    /\ pc = "call" /\ raised = ""
    /\ IdleMicrosaccades /\ IdleGrouping /\ IdlePos2vel /\ IdleProperty /\ IdleProcess
    /\ IdleRest

NextPix2deg == pix2deg

SpecPix2deg == InitPix2deg /\ [][NextPix2deg]_vars

\* the call passes every check made before the origin is looked at
PassesChecks ==
    pix2deg_checks(p2d_arr, p2d_screen_px, p2d_screen_cm, p2d_distance_cm) = ""

\* for element k (1-based, row-major) of the result: its column, the input
\* coordinate it is computed from and the screen components of that column
\* (a screen pair serves columns 3 and 4 as it serves 1 and 2)
ResultColumn(k) == ((k - 1) % last_dim(p2d_result)) + 1
ResultRow(k)    == ((k - 1) \div last_dim(p2d_result)) + 1
Coordinate(k) ==
    p2d_arr.data[(ResultRow(k) - 1) * last_dim(p2d_arr)
                    + (IF last_dim(p2d_arr) = 1 THEN 1 ELSE ResultColumn(k))]
ScreenAt(screen, k) ==
    screen.data[((ResultColumn(k) - 1) % Len(screen.data)) + 1]

\* the angle r is atan2(y2 / 2, distance_cm * px / cm), for positive
\* distance_cm, px and cm
IsAngleOf(r, y2, k) ==
    LET px == ScreenAt(p2d_screen_px, k)
        cm == ScreenAt(p2d_screen_cm, k)
    IN  /\ r[2] > 0
        /\ r[1] * (2 * p2d_distance_cm * px) = r[2] * (y2 * cm)

Recentred ==
    /\ pc = "returned"
    /\ \A k \in 1..Len(p2d_result.data) :
        IsAngleOf(p2d_result.data[k],
                  2 * Coordinate(k) - (ScreenAt(p2d_screen_px, k) - 1), k)

Unchanged ==
    /\ pc = "returned"
    /\ \A k \in 1..Len(p2d_result.data) :
        IsAngleOf(p2d_result.data[k], 2 * Coordinate(k), k)

\* C13 as stated: origin 'lower-left' recentres every coordinate as
\* coord - (screen_px - 1) / 2 before the angle conversion, 'center' leaves
\* it unchanged, any other origin raises.
C13_LowerLeftHyphenated ==
    (pc # "call" /\ PassesChecks) =>
        /\ p2d_origin = "lower-left" => Recentred
        /\ p2d_origin = "center" => Unchanged
        /\ p2d_origin \notin {"lower-left", "center"} =>
                pc = "raised" /\ p2d_result = <<>>

\* C13: in a call that passes the earlier checks, origin 'lower left' (with a
\* space) recentres every coordinate as coord - (screen_px - 1) / 2 before
\* the angle conversion, 'center' leaves it unchanged, and any other origin,
\* 'lower-left' among them, raises and returns nothing.
C13_OriginConvention ==
    (pc # "call" /\ PassesChecks) =>
        /\ p2d_origin = "lower left" => Recentred
        /\ p2d_origin = "center" => Unchanged
        /\ p2d_origin \notin {"lower left", "center"} =>
                pc = "raised" /\ raised = "origin is not supported"
                /\ p2d_result = <<>>

\* a binocular batch recentred with two different screen widths
C13_Witness ==
    /\ pc = "returned" /\ p2d_origin = "lower left"
    /\ p2d_arr.shape = <<2, 4>>
    /\ p2d_screen_px.data = <<2, 5>>
    /\ \A k \in 1..8 : ~IsAngleOf(p2d_result.data[k], 2 * Coordinate(k), k)

\* the hyphenated origin raises
C13_WitnessHyphenated ==
    /\ pc = "raised" /\ p2d_origin = "lower-left" /\ PassesChecks

IsGiven == "none" \notin DOMAIN p2d_arr

\* some component of screen_px or of screen_cm, or distance_cm, is zero
HasZero ==
    \/ \E k \in DOMAIN p2d_screen_px.data : p2d_screen_px.data[k] = 0
    \/ \E k \in DOMAIN p2d_screen_cm.data : p2d_screen_cm.data[k] = 0
    \/ p2d_distance_cm = 0

\* the input forms listed for the coordinates, each with the screen
\* dimensions that go with it
IsListedForm ==
    /\ IsGiven
    /\ \/ p2d_arr.shape = <<>> /\ p2d_screen_px.shape = <<>>
                               /\ p2d_screen_cm.shape = <<>>
       \/ p2d_arr.shape = <<2>> /\ p2d_screen_px.shape = <<2>>
                                /\ p2d_screen_cm.shape = <<2>>
       \/ ndim(p2d_arr) = 2 /\ last_dim(p2d_arr) = 1
            /\ p2d_screen_px.shape = <<>> /\ p2d_screen_cm.shape = <<>>
       \/ ndim(p2d_arr) = 2 /\ last_dim(p2d_arr) \in {2, 4}
            /\ p2d_screen_px.shape = <<2>> /\ p2d_screen_cm.shape = <<2>>

\* a screen argument fits the trailing dimension of arr: a single number
\* for any, a pair for 2 and, tiled, for 4
Fits(screen) ==
    \/ screen.shape \in {<<>>, <<1>>}
    \/ screen.shape = <<2>> /\ last_dim(p2d_arr) \in {2, 4}

\* C14 as stated: for a scalar with scalar screen dimensions, a single
\* 2-vector with 2-vector screen dimensions and a batch with trailing
\* dimension 1, 2 or 4, pix2deg returns a result of the input's shape; an
\* array whose trailing dimension does not fit the screen vectors is rejected
\* rather than broadcast.
C14_ListedFormsKeepShape ==
    (pc # "call" /\ IsGiven /\ ~HasZero /\ p2d_origin = "center") =>
        /\ IsListedForm => pc = "returned" /\ p2d_result.shape = p2d_arr.shape
        /\ (ndim(p2d_arr) \in {1, 2} /\ ~(Fits(p2d_screen_px) /\ Fits(p2d_screen_cm)))
                => pc = "raised"

\* the single 2-vector with 2-vector screen dimensions is refused
C14_PairRefused ==
    /\ pc = "raised" /\ raised = "arr is 1-dimensional, but screen_px is not"
    /\ IsGiven /\ ~HasZero /\ p2d_origin = "center"
    /\ p2d_arr.shape = <<2>>
    /\ p2d_screen_px.shape = <<2>> /\ p2d_screen_cm.shape = <<2>>

\* a batch of trailing dimension 1 is broadcast against a screen pair
C14_ColumnBroadcast ==
    /\ pc = "returned" /\ p2d_arr.shape = <<2, 1>> /\ p2d_result.shape = <<2, 2>>
    /\ p2d_screen_px.shape = <<2>>

\* the messages of the zero checks (line 26 names screen_px for screen_cm)
ZeroMessages == {"screen_px must not be zero", "distance_cm must not be zero"}

\* C15 as stated: a zero in screen_px, screen_cm or distance_cm (one zero
\* component of a vector suffices) makes pix2deg raise and return nothing,
\* and this check precedes every other validation: the error raised is the
\* zero check's whatever else is wrong with the call.
C15_ZeroCheckFirst ==
    (pc # "call" /\ HasZero) =>
        pc = "raised" /\ raised \in ZeroMessages /\ p2d_result = <<>>

\* C15: a zero in screen_px, screen_cm or distance_cm (one zero component of
\* a vector suffices) makes pix2deg raise and return nothing; the zero check
\* precedes every other validation except the rejection of arr = None: for
\* a given arr the error is the zero check's whatever else is wrong with
\* the call, for arr = None it is the TypeError for arr.
C15_ZeroCheckAfterNoneOnly ==
    (pc # "call" /\ HasZero) =>
        /\ pc = "raised" /\ p2d_result = <<>>
        /\ IsGiven => raised \in ZeroMessages
        /\ ~IsGiven => raised = "arr must not be None"

\* one zero component in screen_px, in a call with a 3-dimensional arr and an
\* unknown origin
C15_Witness ==
    /\ pc = "raised" /\ raised = "screen_px must not be zero"
    /\ p2d_screen_px.data = <<2, 0>>
    /\ ~(\E k \in DOMAIN p2d_screen_cm.data : p2d_screen_cm.data[k] = 0)
    /\ p2d_distance_cm # 0
    /\ IsGiven /\ ndim(p2d_arr) = 3 /\ p2d_origin = "upper left"

\* arr = None with a zero distance
C15_WitnessNone ==
    /\ pc = "raised" /\ raised = "arr must not be None"
    /\ ~IsGiven /\ p2d_distance_cm = 0

----------------------------------------------------------------------------
(* events/event_properties.py                                               *)
(*                                                                          *)
(* A frame is a sequence of rows, a row a record with one field per column. *)
(* A column-name argument is [type |-> t, items |-> s]: t the Python type   *)
(* of the value and s its elements, [str |-> name] or [int |-> n].          *)
(* The square root of r is carried exactly, as Sqrt(r): two roots are equal *)
(* when their radicands are, and the larger root has the larger radicand.   *)

Sqrt(r) == [sqrt |-> r]

\* pl.col(name) on a frame
pl_col(frame, name) == [i \in 1..Len(frame) |-> frame[i][name.str]]

col_max(s) == CHOOSE m \in Range(s) : \A v \in Range(s) : v <= m
col_min(s) == CHOOSE m \in Range(s) : \A v \in Range(s) : m <= v

\* variant of check_position_columns: a list is let through like a tuple
check_position_columns_any_sequence(position_columns) ==
    IF position_columns.type \notin {"tuple", "list"}
    THEN "position_columns must be of type tuple[str, str]"
    ELSE IF Len(position_columns.items) # 2
    THEN "position_columns must be of length of 2"
    ELSE IF \E k \in 1..2 : "str" \notin DOMAIN position_columns.items[k]
    THEN "position_columns must be of type tuple[str, str]"
    ELSE ""

\* lines 77-92: the TypeError _check_position_columns raises, "" for none
check_position_columns(position_columns) ==
    IF position_columns.type # "tuple"
    THEN "position_columns must be of type tuple[str, str]"
    ELSE IF Len(position_columns.items) # 2
    THEN "position_columns must be of length of 2"
    ELSE IF \E k \in 1..2 : "str" \notin DOMAIN position_columns.items[k]
    THEN "position_columns must be of type tuple[str, str]"
    ELSE ""

\* lines 95-110: the TypeError _check_velocity_columns raises, "" for none
check_velocity_columns(velocity_columns) ==
    IF velocity_columns.type # "tuple"
    THEN "velocity_columns must be of type tuple[str, str]"
    ELSE IF Len(velocity_columns.items) # 2
    THEN "velocity_columns must be of length of 2"
    ELSE IF \E k \in 1..2 : "str" \notin DOMAIN velocity_columns.items[k]
    THEN "velocity_columns must be of type tuple[str, str]"
    ELSE ""

\* variant of peak_velocity: the smallest speed of the window
lowest_velocity(frame, velocity_columns) ==
    LET x_velocity == pl_col(frame, velocity_columns.items[1])
        y_velocity == pl_col(frame, velocity_columns.items[2])
    IN  Sqrt(col_min([i \in 1..Len(frame) |->
                x_velocity[i] * x_velocity[i] + y_velocity[i] * y_velocity[i]]))

\* lines 32-35: (x.pow(2) + y.pow(2)).sqrt().max(), the root of the largest
\* radicand
peak_velocity(frame, velocity_columns) ==
    LET x_velocity == pl_col(frame, velocity_columns.items[1])
        y_velocity == pl_col(frame, velocity_columns.items[2])
    IN  Sqrt(col_max([i \in 1..Len(frame) |->
                x_velocity[i] * x_velocity[i] + y_velocity[i] * y_velocity[i]]))

\* lines 43-46
dispersion(frame, position_columns) ==
    LET x_position == pl_col(frame, position_columns.items[1])
        y_position == pl_col(frame, position_columns.items[2])
    IN  col_max(x_position) - col_min(x_position)
            + col_max(y_position) - col_min(y_position)

\* variant of amplitude: the extent measured from the origin
amplitude_from_origin(frame, position_columns) ==
    LET x_position == pl_col(frame, position_columns.items[1])
        y_position == pl_col(frame, position_columns.items[2])
    IN  Sqrt(col_max(x_position) * col_max(x_position)
                + col_max(y_position) * col_max(y_position))

\* lines 54-60
amplitude(frame, position_columns) ==
    LET x_position == pl_col(frame, position_columns.items[1])
        y_position == pl_col(frame, position_columns.items[2])
        dx == col_max(x_position) - col_min(x_position)
        dy == col_max(y_position) - col_min(y_position)
    IN  Sqrt(dx * dx + dy * dy)

\* lines 68-74: head(n=1) is the first row, reverse().head(n=1) the last
disposition(frame, position_columns) ==
    LET x_position == pl_col(frame, position_columns.items[1])
        y_position == pl_col(frame, position_columns.items[2])
        dx == x_position[1] - x_position[Len(frame)]
        dy == y_position[1] - y_position[Len(frame)]
    IN  Sqrt(dx * dx + dy * dy)

\* EVENT_PROPERTIES[name](columns), evaluated on a frame
reduce(name, frame, columns) ==
    IF name = "peak_velocity" THEN peak_velocity(frame, columns)
    ELSE IF name = "dispersion" THEN dispersion(frame, columns)
    ELSE IF name = "amplitude" THEN amplitude(frame, columns)
    ELSE disposition(frame, columns)

\* one property built from its column-name argument and evaluated on the
\* samples of one event
event_property ==
    /\ pc = "call"
    /\ LET error == IF prop_name = "peak_velocity"
                    THEN check_velocity_columns(prop_columns)
                    ELSE check_position_columns(prop_columns)
       IN  IF error # ""
           THEN pc' = "raised" /\ raised' = error /\ UNCHANGED prop_value
           ELSE /\ pc' = "returned"
                /\ prop_value' = reduce(prop_name, prop_window, prop_columns)
                /\ UNCHANGED raised
    /\ UNCHANGED <<propArgs, msVars, grpVars, velVars, degVars, procVars, restVars>>

\* the most samples in the window of an event
MaxWindow == 3

\* the rows drawn: positions on a small grid, velocities of both signs
SampleRows ==
    { [x_pos |-> px, y_pos |-> py, x_vel |-> py - 2, y_vel |-> 2 - px] :
        px \in {0, 1, 3}, py \in {0, 2} }

WindowInputs == UNION { [1..n -> SampleRows] : n \in 1..MaxWindow }

str(name) == [str |-> name]

\* column-name arguments: tuples and lists of two names, tuples of one and of
\* three names, a tuple with a number in it, a bare name and None
ColumnInputs ==
    { [type |-> t, items |-> <<str("x_pos"), str("y_pos")>>] : t \in {"tuple", "list"} }
    \cup { [type |-> t, items |-> <<str("x_vel"), str("y_vel")>>] : t \in {"tuple", "list"} }
    \cup { [type |-> "tuple", items |-> <<str("x_pos")>>],
           [type |-> "tuple", items |-> <<str("x_pos"), str("y_pos"), str("x_vel")>>],
           [type |-> "tuple", items |-> <<str("x_pos"), [int |-> 1]>>],
           [type |-> "str", items |-> <<>>],
           [type |-> "NoneType", items |-> <<>>] }

InitProperty ==
    /\ prop_name \in {"peak_velocity", "dispersion", "amplitude", "disposition"}
    /\ prop_columns \in ColumnInputs
    /\ prop_window \in WindowInputs
    /\ prop_value = <<>>
    /\ pc = "call" /\ raised = ""
    /\ IdleMicrosaccades /\ IdleGrouping /\ IdlePos2vel /\ IdlePix2deg /\ IdleProcess
    /\ IdleRest

NextProperty == event_property

SpecProperty == InitProperty /\ [][NextProperty]_vars

\* the constant offsets added to a signal
Offsets == (-2)..2

\* the frame with cx added to the first named column and cy to the second
Shifted(frame, columns, cx, cy) ==
    [i \in 1..Len(frame) |->
        [frame[i] EXCEPT ![columns.items[1].str] = @ + cx,
                         ![columns.items[2].str] = @ + cy]]

\* the first and the last value of a named column of the window
FirstOf(k) == prop_window[1][prop_columns.items[k].str]
LastOf(k)  == prop_window[Len(prop_window)][prop_columns.items[k].str]

\* C16: amplitude, dispersion and disposition of the samples shifted by a
\* constant (cx, cy) equal their value on the samples themselves, and
\* disposition is fixed by the first and the last sample of the window:
\* it is sqrt((x_first - x_last)^2 + (y_first - y_last)^2).
C16_PositionReductionsTranslationInvariant ==
    (pc = "returned" /\ prop_name \in {"amplitude", "dispersion", "disposition"}) =>
        /\ \A cx, cy \in Offsets :
            reduce(prop_name, Shifted(prop_window, prop_columns, cx, cy), prop_columns)
                = prop_value
        /\ prop_name = "disposition" =>
            /\ prop_value = Sqrt((FirstOf(1) - LastOf(1)) * (FirstOf(1) - LastOf(1))
                                 + (FirstOf(2) - LastOf(2)) * (FirstOf(2) - LastOf(2)))
            /\ prop_value = disposition(<<prop_window[1], prop_window[Len(prop_window)]>>,
                                        prop_columns)

\* an amplitude over three samples that differ in both coordinates
C16_Witness ==
    /\ pc = "returned" /\ prop_name = "amplitude"
    /\ Len(prop_window) = 3
    /\ prop_window[1].x_pos # prop_window[2].x_pos
    /\ prop_window[2].y_pos # prop_window[3].y_pos
    /\ prop_value # Sqrt(0)

\* a disposition whose middle sample lies outside the span of first and last
C16_WitnessDisposition ==
    /\ pc = "returned" /\ prop_name = "disposition"
    /\ prop_columns.items = <<str("x_pos"), str("y_pos")>>
    /\ Len(prop_window) = 3
    /\ prop_window[2].x_pos > prop_window[1].x_pos
    /\ prop_window[2].x_pos > prop_window[3].x_pos
    /\ prop_value # Sqrt(0)

\* the frame with the two named columns negated
Negated(frame, columns) ==
    [i \in 1..Len(frame) |->
        [frame[i] EXCEPT ![columns.items[1].str] = -@,
                         ![columns.items[2].str] = -@]]

\* the squared speed of sample i of the window
SquaredSpeed(i) ==
    LET vx == prop_window[i][prop_columns.items[1].str]
        vy == prop_window[i][prop_columns.items[2].str]
    IN  vx * vx + vy * vy

\* C17 as stated: peak_velocity of the velocity samples shifted by a constant
\* (cx, cy) equals peak_velocity of the samples themselves.
C17_PeakVelocityTranslationInvariant ==
    (pc = "returned" /\ prop_name = "peak_velocity") =>
        \A cx, cy \in Offsets :
            peak_velocity(Shifted(prop_window, prop_columns, cx, cy), prop_columns)
                = prop_value

\* C17: peak_velocity is the largest speed sqrt(vx^2 + vy^2) of the window:
\* some sample has that speed and none a larger one.  It is unchanged when
\* the whole velocity signal is negated; a constant offset may change it.
C17_PeakVelocityIsLargestSpeed ==
    (pc = "returned" /\ prop_name = "peak_velocity") =>
        /\ \E i \in 1..Len(prop_window) : prop_value = Sqrt(SquaredSpeed(i))
        /\ \A i \in 1..Len(prop_window) : SquaredSpeed(i) <= prop_value.sqrt
        /\ peak_velocity(Negated(prop_window, prop_columns), prop_columns) = prop_value

\* three samples of different speeds, the peak not the first one, and an
\* offset that changes the peak
C17_Witness ==
    /\ pc = "returned" /\ prop_name = "peak_velocity"
    /\ prop_columns.items = <<str("x_vel"), str("y_vel")>>
    /\ Len(prop_window) = 3
    /\ SquaredSpeed(1) < SquaredSpeed(2) /\ SquaredSpeed(3) < SquaredSpeed(1)
    /\ peak_velocity(Shifted(prop_window, prop_columns, 1, 1), prop_columns)
            # prop_value

\* a column-name argument is a tuple of two names
IsTupleOfTwoNames ==
    /\ prop_columns.type = "tuple"
    /\ Len(prop_columns.items) = 2
    /\ \A k \in 1..2 : "str" \in DOMAIN prop_columns.items[k]

\* a column-name argument is a tuple or a list of two names
IsSequenceOfTwoNames ==
    /\ prop_columns.type \in {"tuple", "list"}
    /\ Len(prop_columns.items) = 2
    /\ \A k \in 1..2 : "str" \in DOMAIN prop_columns.items[k]

\* the property raised a TypeError about its column-name argument
RaisedTypeError ==
    /\ pc = "raised" /\ prop_value = <<>>
    /\ raised \in {"position_columns must be of type tuple[str, str]",
                   "position_columns must be of length of 2",
                   "velocity_columns must be of type tuple[str, str]",
                   "velocity_columns must be of length of 2"}

\* C18 as stated: each of the four properties accepts its column-name
\* argument exactly when it is a tuple or a list of two strings, and raises
\* a typed error for anything else.
C18_AcceptsAnySequenceOfTwoNames ==
    pc # "call" =>
        /\ IsSequenceOfTwoNames => pc = "returned"
        /\ ~IsSequenceOfTwoNames => RaisedTypeError

\* C18: each of the four properties accepts its column-name argument exactly
\* when it is a tuple of two strings; any other value, a list of two strings
\* included, raises a TypeError and no value is computed.
C18_AcceptsTupleOfTwoNames ==
    pc # "call" =>
        /\ IsTupleOfTwoNames => pc = "returned"
        /\ ~IsTupleOfTwoNames => RaisedTypeError

\* a list of two names refused by a position property
C18_Witness ==
    /\ RaisedTypeError /\ prop_name = "amplitude"
    /\ prop_columns = [type |-> "list", items |-> <<str("x_pos"), str("y_pos")>>]

\* a tuple of two names accepted
C18_WitnessAccepted ==
    /\ pc = "returned" /\ prop_name = "dispersion" /\ IsTupleOfTwoNames

----------------------------------------------------------------------------
(* events/event_processing.py: EventGazeProcessor.process                   *)
(*                                                                          *)
(* The event frame has the columns subject_id, name, onset, offset; the     *)
(* gaze frame the columns subject_id, time, x_pos, y_pos, x_vel, y_vel.     *)
(* polars gives the rows of a groupby in no particular order, and           *)
(* list(set(...)) gives the column names of the gaze frame in no            *)
(* particular order: both are choices of the action.                        *)

\* lines 72-73: a single identifier is wrapped in a list
identifier_list(identifiers) ==
    IF IsStr(identifiers) THEN <<identifiers.str>> ELSE identifiers.list

\* line 96: gaze.frame.join(events.frame, on=identifiers), an inner join; the
\* rows come in the order of the gaze frame
join(gaze_frame, event_frame, on) ==
    LET E == Len(event_frame)
        pairs == [k \in 1..(Len(gaze_frame) * E) |->
                    <<((k - 1) \div E) + 1, ((k - 1) % E) + 1>>]
        matches(p) == \A c \in Range(on) : gaze_frame[p[1]][c] = event_frame[p[2]][c]
        matched == SelectSeq(pairs, matches)
    IN  [k \in 1..Len(matched) |-> gaze_frame[matched[k][1]] @@ event_frame[matched[k][2]]]

\* variant of is_between: both bounds exclusive
is_between_exclusive(value, lower, upper) == lower < value /\ value < upper

\* line 97: pl.Expr.is_between, both bounds inclusive
is_between(value, lower, upper) == lower <= value /\ value <= upper

\* line 97: .filter(pl.col('time').is_between(pl.col('onset'), pl.col('offset')))
filter_window(frame) ==
    LET in_window(row) == is_between(row.time, row.onset, row.offset)
    IN  SelectSeq(frame, in_window)

\* line 98: the key of a row in .groupby([*identifiers, 'name', 'onset', 'offset'])
group_key(row, on) ==
    [c \in Range(on) \cup {"name", "onset", "offset"} |-> row[c]]

\* line 98: the keys that occur and, for a key, the rows of its group
group_keys(frame, on) == {group_key(frame[k], on) : k \in 1..Len(frame)}

group_rows(frame, on, key) ==
    LET in_group(row) == group_key(row, on) = key
    IN  SelectSeq(frame, in_group)

\* lines 99-105: one row per group, the key and one column per property
agg(key, rows, properties, position_columns, velocity_columns) ==
    key @@ [property_name \in Range(properties) |->
                reduce(property_name, rows,
                       IF property_name = "peak_velocity" THEN velocity_columns
                       ELSE position_columns)]

\* gaze/gaze_dataframe.py lines 12-28: the names of the gaze columns are an
\* axis, an eye or none, and what is measured
ColumnPrefixes == {"x", "y", "x_left", "y_left", "x_right", "y_right"}

valid_columns(measure) == {prefix \o "_" \o measure : prefix \in ColumnPrefixes}

\* lines 88, 92: tuple(gaze.position_columns[:2]), the list being
\* list(set(valid) & set(frame.columns)) (gaze_dataframe.py lines 108-124),
\* whose order the set decides: any two of the names, in either order
column_tuples(gaze_frame, measure) ==
    LET names == valid_columns(measure) \cap DOMAIN gaze_frame[1]
    IN  { [type |-> "tuple", items |-> <<str(pair[1]), str(pair[2])>>] :
            pair \in {p \in names \X names : p[1] # p[2]} }

process ==
    /\ pc = "call"
    /\ LET identifiers == identifier_list(proc_identifiers)
           frame == filter_window(join(proc_gaze, proc_events, identifiers))
           keys  == group_keys(frame, identifiers)
       IN  IF Len(identifiers) = 0
           THEN /\ pc' = "raised"
                /\ raised' = "list of identifiers must not be empty"
                /\ UNCHANGED <<proc_kwargs, proc_groups, proc_result>>
           ELSE \E position_columns \in column_tuples(proc_gaze, "pos"),
                   velocity_columns \in column_tuples(proc_gaze, "vel"),
                   order \in [1..Cardinality(keys) -> keys] :
                /\ \A i, j \in DOMAIN order : order[i] = order[j] => i = j
                /\ pc' = "returned"
                /\ proc_kwargs' = [position_columns |-> position_columns,
                                   velocity_columns |-> velocity_columns]
                /\ proc_groups' = [k \in DOMAIN order |->
                        group_rows(frame, identifiers, order[k])]
                /\ proc_result' = [k \in DOMAIN order |->
                        agg(order[k], group_rows(frame, identifiers, order[k]),
                            proc_properties, position_columns, velocity_columns)]
                /\ UNCHANGED raised
    /\ UNCHANGED <<procArgs, msVars, grpVars, velVars, degVars, propVars, restVars>>

\* the most events and the number of gaze samples of a call
MaxEvents == 2
MaxGaze == 3

\* the windows of the events drawn: within the gaze samples, and one after
\* the last of them
EventWindows ==
    {<<0, 0>>, <<0, 1>>, <<1, MaxGaze - 1>>, <<MaxGaze + 2, MaxGaze + 3>>}

EventRows ==
    { [subject_id |-> s, name |-> n, onset |-> w[1], offset |-> w[2]] :
        s \in {1, 2}, n \in {"saccade", "fixation"}, w \in EventWindows }

\* gaze samples at the times 0, 1, ..., the first k of subject 1 and the
\* others of subject 2
GazeFrame(k) ==
    [i \in 1..MaxGaze |->
        [subject_id |-> IF i <= k THEN 1 ELSE 2,
         time  |-> i - 1,
         x_pos |-> (i * i) % 5, y_pos |-> (2 * i) % 3,
         x_vel |-> i - 2,       y_vel |-> 3 - 2 * i]]

\* gaze samples of subject 1 with the columns of the left and the right eye
BinocularFrame ==
    [i \in 1..MaxGaze |->
        [subject_id |-> 1, time |-> i - 1,
         x_left_pos  |-> (i * i) % 5, y_left_pos  |-> (2 * i) % 3,
         x_right_pos |-> 7 + i,       y_right_pos |-> 7 - i,
         x_left_vel  |-> i - 2,       y_left_vel  |-> 3 - 2 * i,
         x_right_vel |-> 2 * i,       y_right_vel |-> 5]]

InitProcess ==
    /\ \/ /\ proc_events \in SeqsUpTo(EventRows, MaxEvents)
          /\ proc_gaze \in {GazeFrame(k) : k \in 1..MaxGaze}
          /\ proc_identifiers \in {[str |-> "subject_id"], [list |-> <<"subject_id">>]}
          /\ proc_properties \in {<<"peak_velocity", "amplitude">>,
                                  <<"dispersion", "disposition">>}
       \/ /\ proc_events \in SeqsUpTo(EventRows, 1)
          /\ proc_gaze = GazeFrame(MaxGaze)
          /\ proc_identifiers = [list |-> <<>>]
          /\ proc_properties = <<"dispersion">>
       \/ /\ proc_events = <<[subject_id |-> 1, name |-> "saccade", onset |-> 0,
                               offset |-> 1]>>
          /\ proc_gaze = BinocularFrame
          /\ proc_identifiers = [list |-> <<"subject_id">>]
          /\ proc_properties = <<"peak_velocity", "amplitude">>
    /\ proc_kwargs = <<>> /\ proc_groups = <<>> /\ proc_result = <<>>
    /\ pc = "call" /\ raised = ""
    /\ IdleMicrosaccades /\ IdleGrouping /\ IdlePos2vel /\ IdlePix2deg /\ IdleProperty
    /\ IdleRest

NextProcess == process

SpecProcess == InitProcess /\ [][NextProcess]_vars

\* the gaze sample a joined row was made from
SampleOf(row) == [c \in DOMAIN proc_gaze[1] |-> row[c]]

\* the gaze samples of an event's subject with onset <= time <= offset, in
\* the order of the gaze frame
InWindow(event) ==
    LET belongs(sample) ==
            /\ sample.subject_id = event.subject_id
            /\ event.onset <= sample.time
            /\ sample.time <= event.offset
    IN  SelectSeq(proc_gaze, belongs)

\* the columns the reduction of a property was handed
PropertyColumns(property_name) ==
    IF property_name = "peak_velocity" THEN proc_kwargs.velocity_columns
    ELSE proc_kwargs.position_columns

\* C19: every row process returns carries, for each requested property, the
\* reduction of exactly the gaze samples that have the row's identifier
\* value and onset <= time <= offset: the samples at time = onset and at
\* time = offset are in the group the reduction is applied to, no sample
\* outside [onset, offset] or of another recording is, and every event with
\* a sample in its window has such a row.
C19_WindowIsInclusive ==
    pc = "returned" =>
        /\ \A k \in DOMAIN proc_result :
            LET row == proc_result[k]
            IN  /\ {SampleOf(proc_groups[k][i]) : i \in DOMAIN proc_groups[k]}
                        = Range(InWindow(row))
                /\ \A i \in DOMAIN proc_properties :
                    row[proc_properties[i]]
                        = reduce(proc_properties[i], InWindow(row),
                                 PropertyColumns(proc_properties[i]))
        /\ \A e \in DOMAIN proc_events :
            InWindow(proc_events[e]) # <<>> =>
                \E k \in DOMAIN proc_result :
                    /\ proc_result[k].subject_id = proc_events[e].subject_id
                    /\ proc_result[k].name = proc_events[e].name
                    /\ proc_result[k].onset = proc_events[e].onset
                    /\ proc_result[k].offset = proc_events[e].offset

\* the samples at times 0 and 1 are of subject 1, the later ones of subject
\* 2: an event of subject 1 from 0 to 1 gets the samples at its onset and at
\* its offset, an event of subject 2 from 1 on gets the later samples and
\* not the sample of subject 1 at its onset
C19_Witness ==
    /\ pc = "returned"
    /\ proc_gaze = GazeFrame(2)
    /\ \E k \in DOMAIN proc_result :
        /\ proc_result[k].subject_id = 1
        /\ proc_result[k].onset = 0 /\ proc_result[k].offset = 1
        /\ Len(proc_groups[k]) = 2
        /\ proc_groups[k][1].time = 0 /\ proc_groups[k][2].time = 1
    /\ \E k \in DOMAIN proc_result :
        /\ proc_result[k].subject_id = 2
        /\ proc_result[k].onset = 1 /\ proc_result[k].offset = MaxGaze - 1
        /\ Len(proc_groups[k]) = MaxGaze - 2

\* C20 as stated: process returns exactly one row per event of the input
\* event collection, also for an event with no gaze sample in its window
\* and for two events with the same identifiers, name, onset and offset.
C20_OneRowPerEvent ==
    pc = "returned" => Len(proc_result) = Len(proc_events)

\* an event without a gaze sample in its window gets no row
C20_EmptyWindowDropped ==
    /\ pc = "returned" /\ Len(proc_events) = 2 /\ Len(proc_result) = 1
    /\ InWindow(proc_events[1]) # <<>> /\ InWindow(proc_events[2]) = <<>>

\* two equal events get one row between them
C20_DuplicatesMerged ==
    /\ pc = "returned" /\ Len(proc_events) = 2 /\ Len(proc_result) = 1
    /\ proc_events[1] = proc_events[2]

----------------------------------------------------------------------------
(* dataset/dataset.py: Dataset.detect_events, Dataset.clear_events *)

(* A data frame is [columns |-> the column names in order, rows |-> the     *)
(* rows in order], a row a function from the column names to the values.   *)

\* the number of samples of a recording
MaxTime == 5

\* pl.concat(how='diagonal') fills the cells of a column a frame lacks with null
Null == -999999

\* frame.select(columns).to_numpy(): one row of len(columns) values per sample
to_numpy(frame, columns) ==
    [i \in 1..Len(frame.rows) |-> [c \in 1..Len(columns) |-> frame.rows[i][columns[c]]]]

\* frame.select('time').to_numpy(), of shape (N, 1), as the N time values
time_to_numpy(frame) == [i \in 1..Len(frame.rows) |-> frame.rows[i]["time"]]

\* the row of fileinfo.to_dicts() for recording file_id (0-based): the
\* identifier parsed from the file name; 'filepath' is left out by add_fileinfo
fileinfo_row(file_id) == [subject_id |-> file_id + 1]

\* dataset_files.add_fileinfo: the fileinfo columns as literals, then pl.all()
add_fileinfo(df, fileinfo) ==
    [columns |-> <<"subject_id">> \o df.columns,
     rows    |-> [r \in 1..Len(df.rows) |-> fileinfo @@ df.rows[r]]]

\* EventDataFrame(): no event
EventDataFrame == [columns |-> <<>>, rows |-> <<>>]

\* the frame of the EventDataFrame microsaccades returns
event_frame_of(rows) == [columns |-> <<"name", "onset", "offset">>, rows |-> rows]

\* the detection method called with the keyword arguments of detect_events:
\* microsaccades with its defaults (threshold_factor 6, minimum_threshold
\* 1e-10, include_nan False) where kwargs names nothing else
method(pos, vel, time, kwargs) ==
    LET error == microsaccades_error(pos, vel, [arr |-> time], kwargs.threshold, 1)
        radius  == radius_of(resolve_threshold(kwargs.threshold, vel), 6)
        indices == where(candidate_mask_of(vel, radius, FALSE))
        cands   == candidates_of(indices, vel, FALSE)
    IN  IF error # "" THEN [error |-> "ValueError: " \o error, frame |-> EventDataFrame]
        ELSE [error |-> "",
              frame |-> event_frame_of(
                            event_df(filter_duration(cands, time, kwargs.minimum_duration),
                                     time))]

\* lines 143-155: the eye the columns are taken from; eye is [str |-> ...] or
\* [none |-> TRUE]
infer_eye(eye, columns) ==
    IF IsStr(eye) /\ eye.str = "auto"
    THEN IF "x_right_pos" \in Range(columns) THEN [str |-> "right"]
         ELSE IF "x_left_pos" \in Range(columns) THEN [str |-> "left"]
         ELSE IF "x_pos" \in Range(columns) THEN [none |-> TRUE]
         ELSE [error |-> "AttributeError: eye columns must be present, available columns"]
    ELSE eye

\* lines 157-162
eye_columns(eye, kind) ==
    IF IsNone(eye) THEN <<"x_" \o kind, "y_" \o kind>>
    ELSE <<"x_" \o eye.str \o "_" \o kind, "y_" \o eye.str \o "_" \o kind>>

\* one turn of the loop of lines 176-191 on recording file_id (0-based):
\* a select of a column the frame lacks raises polars' ColumnNotFoundError
detect_one(gaze_df, file_id, position_columns, velocity_columns, kwargs) ==
    IF ~(Range(position_columns) \subseteq Range(gaze_df.columns))
    THEN [error |-> "ColumnNotFoundError", invoked |-> FALSE, frame |-> EventDataFrame]
    ELSE IF ~(Range(velocity_columns) \subseteq Range(gaze_df.columns))
    THEN [error |-> "ColumnNotFoundError", invoked |-> FALSE, frame |-> EventDataFrame]
    ELSE LET out == method(to_numpy(gaze_df, position_columns),
                           to_numpy(gaze_df, velocity_columns),
                           time_to_numpy(gaze_df), kwargs)
         IN  [error   |-> out.error,
              invoked |-> TRUE,
              frame   |-> add_fileinfo(out.frame, fileinfo_row(file_id))]

\* variant of concat: the new frame first
concat_new_first(previous, new) ==
    LET columns == new.columns
                   \o SelectSeq(previous.columns, LAMBDA c : c \notin Range(new.columns))
        all     == new.rows \o previous.rows
    IN  [columns |-> columns,
         rows    |-> [r \in 1..Len(all) |->
                        [c \in Range(columns) |->
                            IF c \in DOMAIN all[r] THEN all[r][c] ELSE Null]]]

\* lines 197-200: pl.concat([previous, new], how='diagonal')
concat(previous, new) ==
    LET columns == previous.columns
                   \o SelectSeq(new.columns, LAMBDA c : c \notin Range(previous.columns))
        all     == previous.rows \o new.rows
    IN  [columns |-> columns,
         rows    |-> [r \in 1..Len(all) |->
                        [c \in Range(columns) |->
                            IF c \in DOMAIN all[r] THEN all[r][c] ELSE Null]]]

\* variant of events_after: each frame is stored as soon as it is detected
events_after_eager(failed, previous, event_dfs, clear) ==
    IF Len(previous) = 0 \/ clear
    THEN event_dfs \o SubSeq(previous, Len(event_dfs) + 1, Len(previous))
    ELSE [k \in 1..Len(previous) |->
            IF k <= Len(event_dfs) THEN concat(previous[k], event_dfs[k])
            ELSE previous[k]]

\* lines 172-201: self.events after the loop, which fills the list event_dfs
\* of its own and has failed or not; self.events is assigned after it only
events_after(failed, previous, event_dfs, clear) ==
    IF failed THEN previous
    ELSE IF Len(previous) = 0 \/ clear THEN event_dfs
    ELSE [k \in 1..Len(previous) |->
            IF k <= Len(event_dfs) THEN concat(previous[k], event_dfs[k])
            ELSE previous[k]]

\* the bound on the number of calls made on one Dataset
MaxCalls == 2

\* a call made on the Dataset ends: what it leaves of its own
ends(call, error, detected, invoked) ==
    /\ ds_call' = call
    /\ ds_before' = ds_events
    /\ ds_detected' = detected
    /\ ds_invoked' = invoked
    /\ ds_calls' = ds_calls + 1
    /\ pc' = IF error = "" THEN "returned" ELSE "raised"
    /\ raised' = error

notDataset == <<msVars, grpVars, velVars, degVars, propVars, procVars, optVars, trVars,
                thrVars, dlVars>>

detect_events ==
    /\ ds_calls < MaxCalls
    /\ \E eye \in {[str |-> "auto"], [str |-> "left"], [str |-> "right"], [none |-> TRUE]},
          clear \in BOOLEAN,
          th \in {[str |-> "engbert2015"], [arr |-> <<1, 1>>]},
          dur \in 1..2 :
        LET call   == [name |-> "detect_events", eye |-> eye, clear |-> clear,
                       kwargs |-> [threshold |-> th, minimum_duration |-> dur]]
            chosen == infer_eye(eye, ds_gaze[1].columns)
            position_columns == eye_columns(chosen, "pos")
            velocity_columns == eye_columns(chosen, "vel")
            outs   == [k \in 1..Len(ds_gaze) |->
                          detect_one(ds_gaze[k], k - 1, position_columns,
                                     velocity_columns, call.kwargs)]
            failed == {k \in 1..Len(ds_gaze) : outs[k].error # ""}
            \* the turns of the loop that took place
            turns  == IF failed = {} THEN Len(ds_gaze)
                      ELSE CHOOSE k \in failed : \A m \in failed : k <= m
            event_dfs == [k \in 1..(IF failed = {} THEN turns ELSE turns - 1) |->
                             outs[k].frame]
            invoked == SelectSeq([k \in 1..turns |-> k - 1],
                                 LAMBDA file_id : outs[file_id + 1].invoked)
        IN  IF Len(ds_gaze) = 0
            THEN /\ ends(call, "AttributeError: no files present in gaze attribute",
                         <<>>, <<>>)
                 /\ UNCHANGED ds_events
            ELSE IF "error" \in DOMAIN chosen
            THEN ends(call, chosen.error, <<>>, <<>>) /\ UNCHANGED ds_events
            ELSE IF ~(Range(position_columns) \subseteq Range(ds_gaze[1].columns))
            THEN /\ ends(call, "AttributeError: required columns, available columns",
                         <<>>, <<>>)
                 /\ UNCHANGED ds_events
            ELSE /\ ends(call, IF failed = {} THEN "" ELSE outs[turns].error,
                         event_dfs, invoked)
                 /\ ds_events' = events_after(failed # {}, ds_events, event_dfs, clear)
    /\ UNCHANGED <<ds_gaze, notDataset>>

clear_events ==
    /\ ds_calls < MaxCalls
    /\ ends([name |-> "clear_events"], "", <<>>, <<>>)
    /\ ds_events' = [file_id \in 1..Len(ds_events) |-> EventDataFrame]
    /\ UNCHANGED <<ds_gaze, notDataset>>

(* The Datasets the model draws. *)

\* the bound on the number of recordings of a Dataset
MaxRecordings == 2

\* velocities of one eye on both axes, sample by sample: a saccade at the
\* samples 1 and 2, a saccade at the samples 3 and 4, no movement at all
EarlySaccade(sample) ==
    IF sample \in {2, 3} THEN 50 ELSE IF sample % 3 = 1 THEN -1 ELSE 1
LateSaccade(sample) ==
    IF sample \in {4, 5} THEN 50 ELSE IF sample % 2 = 1 THEN -1 ELSE 1
NoMovement(sample) == 0

\* the columns of the recordings: monocular, monocular without movement,
\* binocular, left eye only, positions without velocities, pixels only
RecordingKinds == {"monocular", "still", "binocular", "left", "positions", "pixels"}

columns_of(kind) ==
    <<"subject_id", "time">> \o
    CASE kind \in {"monocular", "still"} -> <<"x_pos", "y_pos", "x_vel", "y_vel">>
      [] kind = "binocular" ->
            <<"x_left_pos", "y_left_pos", "x_right_pos", "y_right_pos",
              "x_left_vel", "y_left_vel", "x_right_vel", "y_right_vel">>
      [] kind = "left" -> <<"x_left_pos", "y_left_pos", "x_left_vel", "y_left_vel">>
      [] kind = "positions" -> <<"x_pos", "y_pos">>
      [] kind = "pixels" -> <<"x_pix", "y_pix">>

cell(kind, column, sample, subject_id) ==
    CASE column = "subject_id" -> subject_id
      [] column = "time" -> sample - 1
      [] column \in {"x_vel", "y_vel", "x_left_vel", "y_left_vel"} ->
            IF kind = "still" THEN NoMovement(sample) ELSE EarlySaccade(sample)
      [] column \in {"x_right_vel", "y_right_vel"} -> LateSaccade(sample)
      [] OTHER -> 0

Recording(kind, subject_id) ==
    [columns |-> columns_of(kind),
     rows    |-> [sample \in 1..MaxTime |->
                    [column \in Range(columns_of(kind)) |->
                        cell(kind, column, sample, subject_id)]]]

\* an event file of an earlier session, one per recording: one saccade with
\* the property computed for it then
loaded_events(subject_id) ==
    [columns |-> <<"subject_id", "name", "onset", "offset", "duration">>,
     rows    |-> <<[subject_id |-> subject_id, name |-> "saccade", onset |-> 0,
                    offset |-> 1, duration |-> 1]>>]

\* Dataset.__init__ leaves no event collection; load_gaze_files puts the
\* recordings, load_event_files one event collection per recording
InitDataset ==
    /\ \E kinds \in SeqsUpTo(RecordingKinds, MaxRecordings) :
        /\ ds_gaze = [k \in 1..Len(kinds) |-> Recording(kinds[k], k)]
        /\ \/ ds_events = <<>>
           \/ ds_events = [k \in 1..Len(kinds) |-> loaded_events(k)]
    /\ ds_call = <<>> /\ ds_before = <<>>
    /\ ds_detected = <<>> /\ ds_invoked = <<>> /\ ds_calls = 0
    /\ IdleMicrosaccades /\ IdleGrouping /\ IdlePos2vel /\ IdlePix2deg
    /\ IdleProperty /\ IdleProcess /\ IdleOptions /\ IdleTransform /\ IdleThreshold
    /\ IdleDownload
    /\ pc = "call" /\ raised = ""

NextDataset == detect_events \/ clear_events

SpecDataset == InitDataset /\ [][NextDataset]_vars

(* Claims about Dataset.detect_events. *)

\* the last call was detect_events and it returned
DetectionReturned == ds_calls > 0 /\ ds_call.name = "detect_events" /\ pc = "returned"

\* row holds the cells of stored and null in every other column
Holds(row, stored) ==
    \A column \in DOMAIN row :
        IF column \in DOMAIN stored THEN row[column] = stored[column]
        ELSE row[column] = Null

\* C21: after detect_events has returned there is one event collection per
\* recording; when the Dataset held none before, or clear was true, each is
\* exactly the frame detected in this call; otherwise each holds the rows it
\* held before, in their order, followed by the rows detected in this call,
\* its columns are those of both frames, and a cell of a column the row's own
\* frame lacks is null.  So no stored event is lost unless clear is true.
C21_ReplacedOrUnioned ==
    DetectionReturned =>
        /\ Len(ds_events) = Len(ds_gaze)
        /\ Len(ds_detected) = Len(ds_gaze)
        /\ IF Len(ds_before) = 0 \/ ds_call.clear
           THEN ds_events = ds_detected
           ELSE \A k \in 1..Len(ds_gaze) :
                    LET previous == ds_before[k]
                        new      == ds_detected[k]
                        now      == ds_events[k]
                    IN  /\ Range(now.columns)
                                = Range(previous.columns) \cup Range(new.columns)
                        /\ Len(now.rows) = Len(previous.rows) + Len(new.rows)
                        /\ \A r \in 1..Len(now.rows) :
                            /\ DOMAIN now.rows[r] = Range(now.columns)
                            /\ IF r <= Len(previous.rows)
                               THEN Holds(now.rows[r], previous.rows[r])
                               ELSE Holds(now.rows[r], new.rows[r - Len(previous.rows)])
        /\ ~ds_call.clear =>
            \A k \in 1..Len(ds_before) : \A r \in 1..Len(ds_before[k].rows) :
                Holds(ds_events[k].rows[r], ds_before[k].rows[r])

\* a second detection without clear on a Dataset whose event files carry a
\* property column: the stored saccade, then the detected one with a null
\* duration
C21_Witness ==
    /\ DetectionReturned /\ ~ds_call.clear
    /\ Len(ds_gaze) = 2 /\ ds_before = <<loaded_events(1), loaded_events(2)>>
    /\ Len(ds_events[2].rows) = 2
    /\ ds_events[2].rows[1].onset = 0 /\ ds_events[2].rows[1].duration = 1
    /\ ds_events[2].rows[2].onset = 1 /\ ds_events[2].rows[2].offset = 2
    /\ ds_events[2].rows[2].subject_id = 2
    /\ ds_events[2].rows[2].duration = Null

----------------------------------------------------------------------------
(* The functions that take an option out of an enumerated set, each called  *)
(* with arguments that are valid apart from the option: transforms.pos2vel  *)
(* (method), engbert.compute_threshold (method), transforms.pix2deg        *)
(* (origin), EventProcessor and EventGazeProcessor (property names).       *)
(*                                                                         *)
(* The message of an error is [template |-> the text of the f-string,      *)
(* values |-> the values it interpolates, in order], a string value as     *)
(* [str |-> ...] and a list as [list |-> ...].                             *)

None == [none |-> TRUE]

\* transforms.py line 114
pos2vel_valid_methods == <<"smooth", "neighbors", "preceding", "savitzky_golay">>

\* transforms.py lines 153-157
pos2vel_method_message(meth) ==
    [template |-> "Method needs to be in {valid_methods} (is: {method})",
     values   |-> <<[list |-> pos2vel_valid_methods], [str |-> meth]>>]

\* engbert.py lines 109-111
compute_threshold_message(meth) ==
    [template |-> "Method \"{method}\" not implemented. Valid methods: {valid_methods}",
     values   |-> <<[str |-> meth],
                    [list |-> <<"std", "mad", "engbert2003", "engbert2015">>]>>]

\* variant of origin_message: the origins supported are listed
origin_message_enumerated(origin) ==
    [template |-> "origin {origin} is not supported.",
     values   |-> <<[str |-> origin], [list |-> <<"lower left", "center">>]>>]

\* transforms.py line 73
origin_message(origin) ==
    [template |-> "origin {origin} is not supported.",
     values   |-> <<[str |-> origin]>>]

\* event_properties.py: the keys of EVENT_PROPERTIES, in the order registered
EVENT_PROPERTIES == <<"duration", "peak_velocity", "dispersion", "amplitude", "disposition">>

\* exceptions.py: InvalidProperty
InvalidProperty(property_name, valid_properties) ==
    [template |-> "property '{property_name}' is invalid. Valid properties are: {valid_properties}",
     values   |-> <<[str |-> property_name], [list |-> valid_properties]>>]

\* a message that interpolates nothing
plain(text) == [template |-> text, values |-> <<>>]

\* a call ends with a result or with an error
opt_ends(result, message) ==
    /\ opt_result' = result
    /\ opt_message' = message
    /\ pc' = IF message = None THEN "returned" ELSE "raised"
    /\ raised' = IF message = None THEN "" ELSE message.template
    /\ UNCHANGED <<opt_callee, opt_option, opt_arr,
                   msVars, grpVars, velVars, degVars, propVars, procVars, dsVars,
                   trVars, thrVars, dlVars>>

\* transforms.pos2vel(arr, sampling_rate=1000, method=option)
pos2vel_option ==
    /\ pc = "call" /\ opt_callee = "pos2vel"
    /\ LET meth  == opt_option.str
           error == pos2vel_error(opt_arr, 1000, meth, FALSE)
           v     == IF meth = "smooth" THEN smooth(opt_arr, 1000)
                    ELSE IF meth = "neighbors" THEN neighbors(opt_arr, 1000)
                    ELSE preceding(opt_arr, 1000)
       IN  IF error = "method" THEN opt_ends(None, pos2vel_method_message(meth))
           ELSE IF error # "" THEN opt_ends(None, plain(error))
           ELSE opt_ends([value |-> v.v], None)

\* engbert.compute_threshold(arr, method=option)
compute_threshold_option ==
    /\ pc = "call" /\ opt_callee = "compute_threshold"
    /\ IF compute_threshold_raises(opt_option.str)
       THEN opt_ends(None, compute_threshold_message(opt_option.str))
       ELSE opt_ends([value |-> compute_threshold(opt_arr, opt_option.str)], None)

\* transforms.pix2deg(arr, screen_px, screen_cm, distance_cm, origin=option),
\* the screen a number for a list of one pixel and a pair for a row of two
pix2deg_option ==
    /\ pc = "call" /\ opt_callee = "pix2deg"
    /\ LET screen(v) == IF ndim(opt_arr) = 1 THEN scalar(v) ELSE list(<<v, v>>)
           error == pix2deg_checks(opt_arr, screen(5), screen(2), 3)
           out   == pix2deg_compute(opt_arr, screen(5), screen(2), 3, opt_option.str)
       IN  IF error # "" THEN opt_ends(None, plain(error))
           ELSE IF out.error = "origin is not supported"
           THEN opt_ends(None, origin_message(opt_option.str))
           ELSE IF out.error # "" THEN opt_ends(None, plain(out.error))
           ELSE opt_ends([value |-> [shape |-> out.shape, data |-> out.data]], None)

\* event_processing.py lines 19-31 and 51-63: the names are looked up in turn
processor_init(event_properties) ==
    LET names   == identifier_list(event_properties)
        invalid == {k \in 1..Len(names) : names[k] \notin Range(EVENT_PROPERTIES)}
    IN  IF invalid = {}
        THEN opt_ends([event_properties |-> names], None)
        ELSE opt_ends(None,
                      InvalidProperty(names[CHOOSE k \in invalid : \A m \in invalid : k <= m],
                                      EVENT_PROPERTIES))

EventProcessor_init ==
    /\ pc = "call" /\ opt_callee = "EventProcessor"
    /\ processor_init(opt_option)

EventGazeProcessor_init ==
    /\ pc = "call" /\ opt_callee = "EventGazeProcessor"
    /\ processor_init(opt_option)

\* the options drawn: the valid ones the model computes and two unknown ones
MethodInputs == {"smooth", "neighbors", "preceding", "linear", "SMOOTH"}
ThresholdMethodInputs == {"engbert2015", "median", "Engbert2015"}
OriginInputs == {"lower left", "center", "upper left", "lower-left"}
PropertyNameInputs == Range(EVENT_PROPERTIES) \cup {"velocity"}

InitOptions ==
    /\ \/ /\ opt_callee = "pos2vel"
          /\ \E step \in 0..2 : opt_arr = [ndim |-> 1, rows |-> [i \in 1..6 |-> <<step * i>>]]
          /\ \E meth \in MethodInputs : opt_option = [str |-> meth]
       \/ /\ opt_callee = "compute_threshold"
          /\ opt_arr \in SeqsUpTo(Samples, 2)
          /\ \E meth \in ThresholdMethodInputs : opt_option = [str |-> meth]
       \/ /\ opt_callee = "pix2deg"
          /\ opt_arr \in {list(PixelData(1)), [shape |-> <<1, 2>>, data |-> PixelData(2)]}
          /\ \E origin \in OriginInputs : opt_option = [str |-> origin]
       \/ /\ opt_callee \in {"EventProcessor", "EventGazeProcessor"}
          /\ opt_arr = <<>>
          /\ \/ \E name \in PropertyNameInputs : opt_option = [str |-> name]
             \/ \E names \in SeqsUpTo(PropertyNameInputs, 2) : opt_option = [list |-> names]
    /\ opt_result = None /\ opt_message = None
    /\ IdleMicrosaccades /\ IdleGrouping /\ IdlePos2vel /\ IdlePix2deg
    /\ IdleProperty /\ IdleProcess /\ IdleDataset /\ IdleTransform /\ IdleThreshold
    /\ IdleDownload
    /\ pc = "call" /\ raised = ""

NextOptions ==
    \/ pos2vel_option \/ compute_threshold_option \/ pix2deg_option
    \/ EventProcessor_init \/ EventGazeProcessor_init

SpecOptions == InitOptions /\ [][NextOptions]_vars

(* Claims about unknown options. *)

\* what each function accepts
ValidOptions ==
    [pos2vel            |-> {"smooth", "neighbors", "preceding", "savitzky_golay"},
     compute_threshold  |-> {"std", "mad", "engbert2003", "engbert2015"},
     pix2deg            |-> {"lower left", "center"},
     EventProcessor     |-> {"duration", "peak_velocity", "dispersion", "amplitude",
                             "disposition"},
     EventGazeProcessor |-> {"duration", "peak_velocity", "dispersion", "amplitude",
                             "disposition"}]

\* the call in progress was given an option outside the valid set
UnknownOption ==
    IF IsStr(opt_option) THEN opt_option.str \notin ValidOptions[opt_callee]
    ELSE \E k \in 1..Len(opt_option.list) : opt_option.list[k] \notin ValidOptions[opt_callee]

\* the message lists the options, all of them and no other
Enumerates(message, options) ==
    \E k \in 1..Len(message.values) :
        /\ "list" \in DOMAIN message.values[k]
        /\ Range(message.values[k].list) = options

\* the message names the value
Names(message, value) ==
    \E k \in 1..Len(message.values) : message.values[k] = [str |-> value]

----------------------------------------------------------------------------
(* gaze/gaze_dataframe.py: GazeDataFrame.pix2deg, GazeDataFrame.pos2vel;    *)
(* dataset/dataset.py: Dataset.pix2deg, Dataset.pos2vel                    *)

\* lines 108-124: list(set(valid) & set(frame.columns)), a list in an order
\* the set decides: every order of the names is an outcome
column_lists(frame, measure) ==
    LET names == valid_columns(measure) \cap Range(frame.columns)
    IN  {order \in [1..Cardinality(names) -> names] :
            \A j, k \in 1..Cardinality(names) : order[j] = order[k] => j = k}

\* lines 126-142: column.replace('_pix', '_pos'), column.replace('_pos', '_vel')
replace_measure(columns, old, new) ==
    [k \in 1..Len(columns) |->
        (CHOOSE prefix \in ColumnPrefixes : columns[k] = prefix \o "_" \o old)
            \o "_" \o new]

\* variant of with_columns: the new columns are put in a frame of their own
only_columns(frame, names, values) ==
    [columns |-> names,
     rows    |-> [i \in 1..Len(frame.rows) |->
                    [c \in Range(names) |->
                        values[CHOOSE k \in 1..Len(names) : names[k] = c][i]]]]

\* frame.with_columns([pl.Series(name, values), ...]): a column of the frame
\* with that name is replaced where it stands, another is put at the end
with_columns(frame, names, values) ==
    LET columns == frame.columns
                   \o SelectSeq(names, LAMBDA c : c \notin Range(frame.columns))
    IN  [columns |-> columns,
         rows    |-> [i \in 1..Len(frame.rows) |->
                        [c \in Range(columns) |->
                            IF c \in Range(names)
                            THEN values[CHOOSE k \in 1..Len(names) : names[k] = c][i]
                            ELSE frame.rows[i][c]]]]

\* Experiment: the sampling rate and the screen of the Dataset's definition
sampling_rate == 2
screen == [width_px |-> 5, height_px |-> 3, width_cm |-> 2, height_cm |-> 1,
           distance_cm |-> 3, origin |-> "lower left"]

\* GazeDataFrame.pos2vel (lines 68-96), position_columns in the order the set
\* gave: the error raised ("" when none) and the frame afterwards
gaze_pos2vel(frame, meth, position_columns) ==
    LET velocity_columns == replace_measure(position_columns, "pos", "vel")
        arr    == [ndim |-> 2, rows |-> to_numpy(frame, position_columns)]
        error  == pos2vel_error(arr, sampling_rate, meth, FALSE)
        v      == IF meth = "smooth" THEN smooth(arr, sampling_rate)
                  ELSE IF meth = "neighbors" THEN neighbors(arr, sampling_rate)
                  ELSE preceding(arr, sampling_rate)
    IN  IF Len(position_columns) = 0
        THEN [error |-> "AttributeError: No valid position columns found", frame |-> frame]
        ELSE IF error # "" THEN [error |-> "ValueError: " \o error, frame |-> frame]
        ELSE [error |-> "",
              frame |-> with_columns(frame, velocity_columns,
                            [k \in 1..Len(velocity_columns) |->
                                [i \in 1..Len(frame.rows) |-> v.v[i][k]]])]

\* Screen.pix2deg (gaze/screen.py, not part of the sources at hand), after
\* the specification: transforms.pix2deg with the geometry of the screen
screen_pix2deg(arr) ==
    LET screen_px == list(<<screen.width_px, screen.height_px>>)
        screen_cm == list(<<screen.width_cm, screen.height_cm>>)
        error     == pix2deg_checks(arr, screen_px, screen_cm, screen.distance_cm)
    IN  IF error # "" THEN [error |-> error]
        ELSE pix2deg_compute(arr, screen_px, screen_cm, screen.distance_cm, screen.origin)

\* GazeDataFrame.pix2deg (lines 42-66)
gaze_pix2deg(frame, pix_position_columns) ==
    LET dva_position_columns == replace_measure(pix_position_columns, "pix", "pos")
        pixel_positions == to_numpy(frame, pix_position_columns)
        n   == Len(frame.rows)
        k   == Len(pix_position_columns)
        out == screen_pix2deg([shape |-> <<n, k>>,
                               data  |-> [m \in 1..(n * k) |->
                                    pixel_positions[(m - 1) \div k + 1][((m - 1) % k) + 1]]])
    IN  IF k = 0
        THEN [error |-> "AttributeError: No valid pixel position columns found",
              frame |-> frame]
        ELSE IF out.error # "" THEN [error |-> "ValueError: " \o out.error, frame |-> frame]
        ELSE [error |-> "",
              frame |-> with_columns(frame, dva_position_columns,
                            [id \in 1..k |->
                                [i \in 1..n |-> out.data[(i - 1) * out.shape[2] + id]]])]

\* the loops of Dataset.pix2deg and Dataset.pos2vel (lines 116-118, 126-128):
\* the recordings are transformed one after the other, each in place, up to
\* the first that raises; outs[k] is what the transform makes of recording k
transform_each(outs) ==
    LET failed == {k \in 1..Len(outs) : outs[k].error # ""}
    IN  [k \in 1..Len(outs) |->
            IF \A m \in failed : k < m THEN outs[k].frame ELSE tr_gaze[k]]

\* the error the loop ends with, "" when it ends with none
first_error(outs) ==
    LET failed == {k \in 1..Len(outs) : outs[k].error # ""}
    IN  IF failed = {} THEN ""
        ELSE outs[CHOOSE k \in failed : \A m \in failed : k <= m].error

tr_ends(call, error) ==
    /\ tr_call' = call
    /\ tr_before' = tr_gaze
    /\ tr_calls' = tr_calls + 1
    /\ pc' = IF error = "" THEN "returned" ELSE "raised"
    /\ raised' = error
    /\ UNCHANGED <<tr_stage, msVars, grpVars, velVars, degVars, propVars, procVars,
                   dsVars, optVars, thrVars, dlVars>>

\* a list of columns for each recording
column_orders(measure) ==
    {orders \in [1..Len(tr_gaze) -> UNION {column_lists(tr_gaze[k], measure) :
                                              k \in 1..Len(tr_gaze)}] :
        \A k \in 1..Len(tr_gaze) : orders[k] \in column_lists(tr_gaze[k], measure)}

\* Dataset.pos2vel(method): lines 122-130
Dataset_pos2vel ==
    /\ tr_calls < MaxCalls /\ tr_stage = "positions"
    /\ \E meth \in {"neighbors", "preceding", "linear"} :
        IF Len(tr_gaze) = 0
        THEN /\ tr_ends([name |-> "pos2vel", method |-> meth],
                        "AttributeError: no files present in gaze attribute")
             /\ UNCHANGED tr_gaze
        ELSE \E orders \in column_orders("pos") :
                LET outs == [k \in 1..Len(tr_gaze) |->
                                gaze_pos2vel(tr_gaze[k], meth, orders[k])]
                IN  /\ tr_ends([name |-> "pos2vel", method |-> meth, columns |-> orders],
                               first_error(outs))
                    /\ tr_gaze' = transform_each(outs)

\* Dataset.pix2deg(): lines 112-120
Dataset_pix2deg ==
    /\ tr_calls < MaxCalls /\ tr_stage = "pixels"
    /\ IF Len(tr_gaze) = 0
       THEN /\ tr_ends([name |-> "pix2deg"],
                       "AttributeError: no files present in gaze attribute")
            /\ UNCHANGED tr_gaze
       ELSE \E orders \in column_orders("pix") :
                LET outs == [k \in 1..Len(tr_gaze) |-> gaze_pix2deg(tr_gaze[k], orders[k])]
                IN  /\ tr_ends([name |-> "pix2deg", columns |-> orders], first_error(outs))
                    /\ tr_gaze' = transform_each(outs)

(* The Datasets the model draws: recordings of two or three samples, in the *)
(* pixel stage with two pixel columns or none and perhaps the positions of  *)
(* an earlier conversion, in the position stage with two position columns  *)
(* or none and perhaps velocities.                                         *)
(* The velocities of converted positions are not computed: the model keeps *)
(* an angle as a direction, and a call of pos2vel follows no pix2deg.      *)

PixelKinds == {"pix", "pix and pos", "right pix", "no pix"}
PositionKinds == {"pos", "left pos", "pos and vel", "no pos"}

transform_columns(kind) ==
    <<"time">> \o
    CASE kind = "pix" -> <<"x_pix", "y_pix">>
      [] kind = "pix and pos" -> <<"x_pos", "x_pix", "y_pix", "y_pos">>
      [] kind = "right pix" -> <<"x_right_pix", "y_right_pix">>
      [] kind = "pos" -> <<"x_pos", "y_pos">>
      [] kind = "left pos" -> <<"x_left_pos", "y_left_pos", "pupil">>
      [] kind = "pos and vel" -> <<"x_vel", "x_pos", "y_pos", "y_vel">>
      [] OTHER -> <<"pupil">>

transform_cell(column, sample) ==
    CASE column = "time" -> sample - 1
      [] column \in valid_columns("pix") \cap {"x_pix", "x_left_pix", "x_right_pix"} ->
            (3 * sample + 1) % 7
      [] column \in valid_columns("pix") -> (2 * sample) % 5
      [] column \in {"x_pos", "x_left_pos"} -> sample * sample
      [] column \in {"y_pos", "y_left_pos"} -> 3 * sample
      [] OTHER -> 7

\* in the pixel stage a position column holds the angle of an earlier conversion
TransformRecording(kind, samples) ==
    [columns |-> transform_columns(kind),
     rows    |-> [sample \in 1..samples |->
                    [column \in Range(transform_columns(kind)) |->
                        IF kind = "pix and pos" /\ column \in valid_columns("pos")
                        THEN <<1, sample>>
                        ELSE transform_cell(column, sample)]]]

InitTransform ==
    /\ \/ tr_stage = "pixels"
          /\ \E kinds \in SeqsUpTo(PixelKinds, MaxRecordings) :
              \E samples \in [1..Len(kinds) -> 2..3] :
                tr_gaze = [k \in 1..Len(kinds) |-> TransformRecording(kinds[k], samples[k])]
       \/ tr_stage = "positions"
          /\ \E kinds \in SeqsUpTo(PositionKinds, MaxRecordings) :
              \E samples \in [1..Len(kinds) -> 2..3] :
                tr_gaze = [k \in 1..Len(kinds) |-> TransformRecording(kinds[k], samples[k])]
    /\ tr_call = <<>> /\ tr_before = <<>> /\ tr_calls = 0
    /\ IdleMicrosaccades /\ IdleGrouping /\ IdlePos2vel /\ IdlePix2deg
    /\ IdleProperty /\ IdleProcess /\ IdleDataset /\ IdleOptions /\ IdleThreshold
    /\ IdleDownload
    /\ pc = "call" /\ raised = ""

NextTransform == Dataset_pos2vel \/ Dataset_pix2deg

SpecTransform == InitTransform /\ [][NextTransform]_vars

(* Claims about the transform stages. *)

\* C23 as stated: when Dataset.pos2vel or Dataset.pix2deg has raised, every
\* recording of the Dataset is the frame it was before the call: no column
\* was added to any recording and none was overwritten.
C23_NoPartialResult ==
    (tr_calls > 0 /\ pc = "raised") => tr_gaze = tr_before

\* pos2vel with method 'neighbors' on a recording of three samples followed
\* by one of two: the call raises on the second recording and the first
\* keeps the velocity columns it was given
C23_FirstRecordingTransformed ==
    /\ tr_calls = 1 /\ pc = "raised" /\ tr_call.name = "pos2vel"
    /\ tr_call.method = "neighbors"
    /\ Len(tr_gaze) = 2
    /\ Len(tr_gaze[1].rows) = 3 /\ Len(tr_gaze[2].rows) = 2
    /\ "x_vel" \notin Range(tr_before[1].columns)
    /\ "x_vel" \in Range(tr_gaze[1].columns)
    /\ tr_gaze[2] = tr_before[2]

----------------------------------------------------------------------------
(* events/detection/engbert.py: compute_threshold(arr, 'engbert2015') on an *)
(* array and on the array scaled                                            *)

\* k * arr, elementwise; k * NaN is NaN
scaled(arr, k) ==
    [i \in 1..Len(arr) |->
        [c \in 1..Len(arr[i]) |-> IF isnan(arr[i][c]) THEN NaN ELSE k * arr[i][c]]]

thresholds ==
    /\ pc = "call"
    /\ thr_base' = compute_threshold(thr_arr, "engbert2015")
    /\ thr_scaled' = compute_threshold(scaled(thr_arr, thr_k), "engbert2015")
    /\ pc' = "returned"
    /\ UNCHANGED <<thr_arr, thr_k, raised, msVars, grpVars, velVars, degVars, propVars,
                   procVars, dsVars, optVars, trVars, dlVars>>

\* the scale factors drawn
ScaleFactors == -2..3

InitThreshold ==
    /\ thr_arr \in SeqsUpTo(Samples, MaxLen)
    /\ thr_k \in ScaleFactors
    /\ thr_base = <<>> /\ thr_scaled = <<>>
    /\ IdleMicrosaccades /\ IdleGrouping /\ IdlePos2vel /\ IdlePix2deg
    /\ IdleProperty /\ IdleProcess /\ IdleDataset /\ IdleOptions /\ IdleTransform
    /\ IdleDownload
    /\ pc = "call" /\ raised = ""

NextThreshold == thresholds

SpecThreshold == InitThreshold /\ [][NextThreshold]_vars

(* Claims about the scaling of the threshold.  A threshold t is carried as  *)
(* 8 * t * t and is never negative, so the threshold of the scaled array   *)
(* is k times the threshold t of the array when 8 * t * t is scaled by    *)
(* k * k and k * t is not negative.                                        *)

ScaledBySquare(c) ==
    IF isnan(thr_base[c]) THEN isnan(thr_scaled[c])
    ELSE thr_scaled[c] = thr_k * thr_k * thr_base[c]

\* C24 as stated: on each axis the engbert2015 threshold of k * v is k times
\* the threshold of v, for every array v and every scale factor k.
C24_ScalesLinearly ==
    pc = "returned" =>
        \A c \in 1..2 :
            /\ ScaledBySquare(c)
            /\ ~(thr_k < 0 /\ ~isnan(thr_base[c]) /\ thr_base[c] > 0)

\* C24: on each axis the engbert2015 threshold of k * v is |k| times the
\* threshold of v: k times for k >= 0, -k times for k < 0; a threshold that
\* is missing stays missing.
C24_ScalesByMagnitude ==
    pc = "returned" => \A c \in 1..2 : ScaledBySquare(c)

\* velocities 0, 1, 3 on the first axis have the threshold 1; scaled by 3
\* they have the threshold 3
C24_Witness ==
    /\ pc = "returned" /\ thr_k = 3
    /\ Column(thr_arr, 1) = <<0, 1, 3>>
    /\ thr_base[1] = Sq8(1) /\ thr_scaled[1] = Sq8(3)

\* scaled by -2 they have the threshold 2, not -2
C24_NegativeFactor ==
    /\ pc = "returned" /\ thr_k = -2
    /\ Column(thr_arr, 1) = <<0, 1, 3>>
    /\ thr_base[1] = Sq8(1) /\ thr_scaled[1] = Sq8(2)

\* the last transform returned; it read the columns of one measure and wrote
\* those of the next
TransformReturned == tr_calls > 0 /\ pc = "returned"
ReadMeasure    == IF tr_call.name = "pix2deg" THEN "pix" ELSE "pos"
WrittenMeasure == IF tr_call.name = "pix2deg" THEN "pos" ELSE "vel"

\* the axes and eyes a frame has a column of the measure for
PrefixesOf(frame, measure) ==
    {prefix \in ColumnPrefixes : prefix \o "_" \o measure \in Range(frame.columns)}

\* six times the velocity at sample i (1-based) of the positions xs
VelocityOf(xs, meth, i) ==
    IF meth = "preceding"
    THEN IF i = 1 THEN 0 ELSE 6 * (xs[i] - xs[i - 1]) * sampling_rate
    ELSE IF i = 1 \/ i = Len(xs) THEN 0
         ELSE 3 * (xs[i + 1] - xs[i - 1]) * sampling_rate

\* angle is the direction of (pixel - (px - 1) / 2, distance_cm * px / cm)
\* for the width or for the height of the screen
AngleOf(angle, pixel) ==
    \E side \in {<<screen.width_px, screen.width_cm>>,
                 <<screen.height_px, screen.height_cm>>} :
        /\ angle[2] > 0
        /\ angle[1] * (2 * screen.distance_cm * side[1])
                = angle[2] * ((2 * pixel - (side[1] - 1)) * side[2])

\* C25: after a transform stage has returned, each recording has the columns
\* it had, in their order, and one column of the written measure for each
\* axis and eye it has a column of the read measure for, no name twice; it
\* has the rows it had, and every cell outside the written columns, 'time'
\* among them, is what it was; a written cell is the angle of the pixel, or
\* the velocity of the positions, in the column of the same axis and eye.
\* A second run of the stage therefore changes no column but those it wrote
\* the first time.
C25_OnlyTargetColumns ==
    TransformReturned =>
        \A k \in 1..Len(tr_gaze) :
            LET old      == tr_before[k]
                new      == tr_gaze[k]
                prefixes == PrefixesOf(old, ReadMeasure)
                written  == {prefix \o "_" \o WrittenMeasure : prefix \in prefixes}
            IN  /\ Range(new.columns) = Range(old.columns) \cup written
                /\ Len(new.columns) = Cardinality(Range(new.columns))
                /\ SubSeq(new.columns, 1, Len(old.columns)) = old.columns
                /\ Len(new.rows) = Len(old.rows)
                /\ \A i \in 1..Len(new.rows) :
                    /\ DOMAIN new.rows[i] = Range(new.columns)
                    /\ \A c \in Range(old.columns) \ written :
                        new.rows[i][c] = old.rows[i][c]
                    /\ \A prefix \in prefixes :
                        LET wrote == new.rows[i][prefix \o "_" \o WrittenMeasure]
                            read == [j \in 1..Len(old.rows) |->
                                        old.rows[j][prefix \o "_" \o ReadMeasure]]
                        IN  IF tr_call.name = "pix2deg" THEN AngleOf(wrote, read[i])
                            ELSE wrote = VelocityOf(read, tr_call.method, i)

\* pos2vel run with 'preceding' and then with 'neighbors' on a recording of
\* three samples: the second run finds x_vel and y_vel, gives them other
\* values and leaves the columns and the other cells as they were
C25_Witness ==
    /\ TransformReturned /\ tr_calls = 2 /\ tr_call.name = "pos2vel"
    /\ tr_call.method = "neighbors"
    /\ Len(tr_gaze) = 1 /\ Len(tr_gaze[1].rows) = 3
    /\ "x_vel" \in Range(tr_before[1].columns)
    /\ tr_gaze[1].columns = tr_before[1].columns
    /\ tr_before[1].rows[2].x_vel = 6 * (4 - 1) * sampling_rate
    /\ tr_gaze[1].rows[2].x_vel = 3 * (9 - 1) * sampling_rate
    /\ tr_gaze[1].rows[2].x_pos = 4 /\ tr_gaze[1].rows[2].time = 1

\* the last call was detect_events
DetectionCalled == ds_calls > 0 /\ ds_call.name = "detect_events"

\* the eye detect_events is to work on: the one named, or for 'auto' the
\* right eye, else the left, else the only one, as the first recording has
\* the x position of it; "no eye" when it has none
SelectedEye ==
    LET has(column) == column \in Range(ds_gaze[1].columns)
    IN  IF ds_call.eye # [str |-> "auto"] THEN ds_call.eye
        ELSE IF has("x_right_pos") THEN [str |-> "right"]
        ELSE IF has("x_left_pos") THEN [str |-> "left"]
        ELSE IF has("x_pos") THEN [none |-> TRUE]
        ELSE [str |-> "no eye"]

\* the position and velocity columns of the selected eye
RequiredColumns ==
    IF SelectedEye = [none |-> TRUE] THEN {"x_pos", "y_pos", "x_vel", "y_vel"}
    ELSE {axis \o "_" \o SelectedEye.str \o "_" \o measure :
            axis \in {"x", "y"}, measure \in {"pos", "vel"}}

\* some recording lacks a column required for the selected eye
ColumnMissing ==
    \E k \in 1..Len(ds_gaze) : ~(RequiredColumns \subseteq Range(ds_gaze[k].columns))

\* C26 as stated: detect_events with eye='auto' on a Dataset whose first
\* recording has no x position of any eye fails; a call that returns has
\* detected on the columns of the selected eye in every recording; and a
\* call for which some recording lacks a required column of the selected eye
\* has failed with the error that lists the required and the available
\* columns, the detection method invoked on no recording.
C26_MissingColumnRefused ==
    (DetectionCalled /\ Len(ds_gaze) > 0) =>
        /\ SelectedEye = [str |-> "no eye"] => pc = "raised" /\ ds_invoked = <<>>
        /\ pc = "returned" =>
            \A k \in 1..Len(ds_gaze) :
                /\ RequiredColumns \subseteq Range(ds_gaze[k].columns)
                /\ ds_invoked[k] = k - 1
        /\ (SelectedEye # [str |-> "no eye"] /\ ColumnMissing) =>
            /\ pc = "raised"
            /\ raised = "AttributeError: required columns, available columns"
            /\ ds_invoked = <<>>

\* a monocular recording followed by one without velocities: the method is
\* invoked on the first recording before the select on the second raises
C26_InvokedBeforeFailure ==
    /\ DetectionCalled /\ pc = "raised" /\ raised = "ColumnNotFoundError"
    /\ Len(ds_gaze) = 2 /\ ds_invoked = <<0>>
    /\ "x_vel" \in Range(ds_gaze[1].columns)
    /\ "x_vel" \notin Range(ds_gaze[2].columns)

\* the first recording has the positions of the selected eye and not its
\* velocities: the call fails in the select, with polars' error
C26_VelocitiesNotChecked ==
    /\ DetectionCalled /\ pc = "raised" /\ raised = "ColumnNotFoundError"
    /\ Len(ds_gaze) = 1 /\ ds_invoked = <<>>
    /\ {"x_pos", "y_pos"} \subseteq Range(ds_gaze[1].columns)
    /\ "x_vel" \notin Range(ds_gaze[1].columns)

\* C29: when detect_events has raised, whatever the error and whichever the
\* recording it was raised for, the event collections of the Dataset are
\* exactly those it held before the call.
C29_AllOrNothing ==
    (DetectionCalled /\ pc = "raised") => ds_events = ds_before

\* the threshold of the second recording, which shows no movement, is below
\* the minimum: the method has returned the saccade of the first recording
\* and raised on the second, and the Dataset holds the events it had loaded
C29_Witness ==
    /\ DetectionCalled /\ pc = "raised" /\ raised = "ValueError: minimum_threshold"
    /\ Len(ds_gaze) = 2 /\ ds_invoked = <<0, 1>>
    /\ Len(ds_detected) = 1 /\ Len(ds_detected[1].rows) = 1
    /\ ds_before = <<loaded_events(1), loaded_events(2)>>
    /\ ds_events = ds_before

(* Claims about the columns process hands to the reductions and about the   *)
(* order of the rows it returns.                                           *)

\* the tuple names the x and then the y column of one eye, of the measure
IsPairOfOneEye(columns, measure) ==
    \E eye \in {"_", "_left_", "_right_"} :
        columns.items = <<str("x" \o eye \o measure), str("y" \o eye \o measure)>>

\* C27 as stated, for one call: the columns process hands to the reduction
\* of each requested property are the x and the y column of one eye, velocity
\* columns for a reduction that takes velocity_columns and position columns
\* for one that takes position_columns, for monocular and binocular frames.
C27_PairOfOneEye ==
    pc = "returned" =>
        \A i \in DOMAIN proc_properties :
            IsPairOfOneEye(PropertyColumns(proc_properties[i]),
                           IF proc_properties[i] = "peak_velocity" THEN "vel" ELSE "pos")

\* on a binocular frame amplitude is handed the x columns of the two eyes
C27_MixedEyes ==
    /\ pc = "returned" /\ proc_gaze = BinocularFrame
    /\ "amplitude" \in Range(proc_properties)
    /\ proc_kwargs.position_columns.items = <<str("x_left_pos"), str("x_right_pos")>>

\* on a monocular frame the y column comes first
C27_AxesExchanged ==
    /\ pc = "returned" /\ proc_gaze = GazeFrame(MaxGaze)
    /\ "amplitude" \in Range(proc_properties)
    /\ proc_kwargs.position_columns.items = <<str("y_pos"), str("x_pos")>>

\* the key process groups an event under
EventKey(event) ==
    [c \in {"subject_id", "name", "onset", "offset"} |-> event[c]]

\* C28 as stated: process returns one row per event, the i-th row for the
\* i-th event: it carries that event's identifier, name, onset and offset
\* and the properties computed from the samples in that event's window.
C28_RowsInEventOrder ==
    pc = "returned" =>
        /\ Len(proc_result) = Len(proc_events)
        /\ \A i \in DOMAIN proc_result :
            /\ EventKey(proc_result[i]) = EventKey(proc_events[i])
            /\ \A j \in DOMAIN proc_properties :
                proc_result[i][proc_properties[j]]
                    = reduce(proc_properties[j], InWindow(proc_events[i]),
                             PropertyColumns(proc_properties[j]))

\* two events of one subject, each with samples in its window: a row for
\* each, the row of the second event first
C28_RowsExchanged ==
    /\ pc = "returned" /\ Len(proc_events) = 2 /\ Len(proc_result) = 2
    /\ proc_events[1] # proc_events[2]
    /\ EventKey(proc_result[1]) = EventKey(proc_events[2])
    /\ EventKey(proc_result[2]) = EventKey(proc_events[1])

----------------------------------------------------------------------------
(* dataset/dataset_download.py: download_dataset(definition, paths,        *)
(* extract, remove_finished) and utils/downloads.py: download_file.  The    *)
(* definition is [mirrors, resources]; mirror m is the m-th base URL and    *)
(* resource r the record [resource, filename, md5] of index r.  What the    *)
(* network and the checksum do to one download_file call is an answer       *)
(* drawn for each resource and mirror.                                      *)

MaxMirrors == 2
MaxResources == 2

ResourceOf(r) ==
    [resource |-> "resource" \o ToString(r), filename |-> "archive" \o ToString(r), md5 |-> r]
MirrorOf(m) == "https://mirror" \o ToString(m) \o "/"

\* what redirect expansion (line 66: URLError, or RuntimeError after too many
\* hops), the transfer with its https -> http second try (lines 69-79:
\* OSError, URLError) and the integrity check (lines 82-83: RuntimeError)
\* make of a call that has to transfer the file
Answers == {"ok", "URLError", "OSError", "RuntimeError"}

\* lines 55-85: a file already present and verified is returned without a
\* transfer (lines 60-62); otherwise the call returns or raises as answered
download_file(filename, present, answer) ==
    IF filename \in present THEN "ok" ELSE answer

\* variant of caught: RuntimeError is not caught
caught_without_RuntimeError(outcome) == outcome \in {"URLError", "OSError"}

\* line 47: except (URLError, OSError, RuntimeError)
caught(outcome) == outcome \in {"URLError", "OSError", "RuntimeError"}

\* lines 33-53, from mirror m on: the download_file calls made for resource
\* r, the last of them the successful one (break), or one of them with an
\* error that is not caught, or all of them caught (continue)
RECURSIVE try_mirrors(_, _, _, _)
try_mirrors(r, m, present, network) ==
    IF m > Len(dl_definition.mirrors) THEN <<>>
    ELSE LET url     == dl_definition.mirrors[m] \o dl_definition.resources[r].resource
             outcome == download_file(dl_definition.resources[r].filename, present,
                                      network[r, m])
             attempt == [resource |-> r, mirror |-> m, url |-> url, outcome |-> outcome]
         IN  IF outcome = "ok" \/ ~caught(outcome) THEN <<attempt>>
             ELSE <<attempt>> \o try_mirrors(r, m + 1, present, network)

\* lines 30-58, from resource r on: the calls made and the error raised
RECURSIVE download_resources(_, _, _)
download_resources(r, present, network) ==
    IF r > Len(dl_definition.resources) THEN [attempts |-> <<>>, error |-> ""]
    ELSE LET tried == try_mirrors(r, 1, present, network)
             final == tried[Len(tried)].outcome
         IN  IF final = "ok"
             THEN LET later == download_resources(r + 1, present, network)
                  IN  [attempts |-> tried \o later.attempts, error |-> later.error]
             ELSE IF ~caught(final)
             THEN [attempts |-> tried, error |-> final]
             ELSE [attempts |-> tried,
                   error |-> "RuntimeError: downloading resource "
                                \o dl_definition.resources[r].resource
                                \o " failed for all mirrors."]

\* the files download_file calls have left in the downloads directory
downloaded(attempts) ==
    {dl_definition.resources[attempts[i].resource].filename :
        i \in {j \in DOMAIN attempts : attempts[j].outcome = "ok"}}

\* lines 68-84: extract_archive on the file of every resource, in order
extract_dataset ==
    [r \in 1..Len(dl_definition.resources) |-> dl_definition.resources[r].filename]

\* an answer for every resource and mirror; a mirror listed after one that
\* answers "ok" is never asked, and its answer is taken to be "ok" too
Networks ==
    {network \in [(1..Len(dl_definition.resources)) \X (1..Len(dl_definition.mirrors))
                     -> Answers] :
        \A r \in 1..Len(dl_definition.resources), m \in 2..Len(dl_definition.mirrors) :
            network[r, m - 1] = "ok" => network[r, m] = "ok"}

download_dataset ==
    /\ pc = "call"
    /\ \E extract \in BOOLEAN, remove_finished \in BOOLEAN,
          network \in Networks :
        /\ dl_call' = [extract |-> extract, remove_finished |-> remove_finished]
        /\ IF Len(dl_definition.mirrors) = 0
           THEN /\ pc' = "raised"
                /\ raised' = "AttributeError: number of mirrors must not be zero to download dataset"
                /\ UNCHANGED <<dl_present, dl_attempts, dl_extracted>>
           ELSE IF Len(dl_definition.resources) = 0
           THEN /\ pc' = "raised"
                /\ raised' = "AttributeError: number of resources must not be zero to download dataset"
                /\ UNCHANGED <<dl_present, dl_attempts, dl_extracted>>
           ELSE LET out == download_resources(1, dl_present, network)
                IN  /\ dl_attempts' = out.attempts
                    /\ IF out.error # ""
                       THEN /\ pc' = "raised" /\ raised' = out.error
                            /\ dl_present' = dl_present \cup downloaded(out.attempts)
                            /\ UNCHANGED dl_extracted
                       ELSE /\ pc' = "returned"
                            /\ dl_extracted' = IF extract THEN extract_dataset ELSE <<>>
                            /\ dl_present' =
                                 IF extract /\ remove_finished THEN {}
                                 ELSE dl_present \cup downloaded(out.attempts)
                            /\ UNCHANGED raised
    /\ UNCHANGED <<dl_definition, msVars, grpVars, velVars, degVars, propVars, procVars,
                   dsVars, optVars, trVars, thrVars>>

\* definitions of up to MaxMirrors mirrors and MaxResources resources, and a
\* downloads directory that holds verified files of some of the resources
InitDownload ==
    /\ \E mirrors \in 0..MaxMirrors, resources \in 0..MaxResources :
        /\ dl_definition = [mirrors   |-> [m \in 1..mirrors |-> MirrorOf(m)],
                            resources |-> [r \in 1..resources |-> ResourceOf(r)]]
        /\ dl_present \in SUBSET {ResourceOf(r).filename : r \in 1..resources}
    /\ dl_call = <<>> /\ dl_attempts = <<>> /\ dl_extracted = <<>>
    /\ IdleMicrosaccades /\ IdleGrouping /\ IdlePos2vel /\ IdlePix2deg
    /\ IdleProperty /\ IdleProcess /\ IdleDataset /\ IdleOptions /\ IdleTransform
    /\ IdleThreshold
    /\ pc = "call" /\ raised = ""

NextDownload == download_dataset

SpecDownload == InitDownload /\ [][NextDownload]_vars

(* Claims about the order of the downloads.  A mirror fails when the       *)
(* download_file call on it raises URLError, OSError or RuntimeError.        *)

DownloadEnded == pc \in {"returned", "raised"} /\ Len(dl_definition.mirrors) > 0
                    /\ Len(dl_definition.resources) > 0

\* the calls start at the first mirror of the first resource; after a failed
\* call comes the next mirror of the same resource, after a successful one
\* the first mirror of the next resource
InListedOrder ==
    /\ Len(dl_attempts) > 0
    /\ dl_attempts[1].resource = 1 /\ dl_attempts[1].mirror = 1
    /\ \A i \in 2..Len(dl_attempts) :
        IF dl_attempts[i - 1].outcome = "ok"
        THEN /\ dl_attempts[i].resource = dl_attempts[i - 1].resource + 1
             /\ dl_attempts[i].mirror = 1
        ELSE /\ dl_attempts[i].resource = dl_attempts[i - 1].resource
             /\ dl_attempts[i].mirror = dl_attempts[i - 1].mirror + 1
    /\ \A i \in DOMAIN dl_attempts :
        dl_attempts[i].url = MirrorOf(dl_attempts[i].mirror)
                                \o ResourceOf(dl_attempts[i].resource).resource

\* C30: download_dataset tries the mirrors of each resource in their listed
\* order and stops at the first mirror whose download succeeds; a resource
\* for which every mirror fails raises a RuntimeError, after which no later
\* resource is downloaded and nothing is extracted; the archives are
\* extracted only after every resource has been downloaded and only when
\* extract is true.
C30_MirrorsInOrder ==
    DownloadEnded =>
        /\ InListedOrder
        /\ LET final == dl_attempts[Len(dl_attempts)]
           IN  IF final.outcome = "ok"
               THEN /\ final.resource = Len(dl_definition.resources)
                    /\ pc = "returned"
                    /\ dl_extracted = IF dl_call.extract THEN extract_dataset ELSE <<>>
               ELSE /\ final.mirror = Len(dl_definition.mirrors)
                    /\ pc = "raised"
                    /\ raised = "RuntimeError: downloading resource "
                                    \o ResourceOf(final.resource).resource
                                    \o " failed for all mirrors."
                    /\ dl_extracted = <<>>

\* the second mirror serves the first resource after the first one failed,
\* both mirrors fail for the second resource: RuntimeError, nothing extracted
C30_Witness ==
    /\ pc = "raised" /\ dl_call.extract
    /\ Len(dl_attempts) = 4
    /\ dl_attempts[1].outcome = "URLError" /\ dl_attempts[2].outcome = "ok"
    /\ dl_attempts[3].outcome = "RuntimeError" /\ dl_attempts[4].outcome = "OSError"
    /\ dl_extracted = <<>>

\* every resource comes from the first mirror, the second mirror is not
\* tried, and both archives are extracted
C30_Extracted ==
    /\ pc = "returned" /\ dl_call.extract
    /\ Len(dl_definition.mirrors) = 2 /\ Len(dl_definition.resources) = 2
    /\ Len(dl_attempts) = 2
    /\ \A i \in 1..2 : dl_attempts[i].mirror = 1
    /\ dl_extracted = extract_dataset

====
